---------------------------- MODULE Spec2Model ----------------------------
(***************************************************************************)
(* A model of the MXP JavaScript SDK: the binary frame codec (codec.ts,    *)
(* utils.ts, message.ts), the WebRTC peer state machine (peer.ts), the     *)
(* transport that manages the peers (webrtc.ts), the A2A Task (task.ts)    *)
(* and the bridge between A2A messages and frames (types.ts, convert.ts).  *)
(*                                                                         *)
(* A JavaScript bigint is modelled as the little-endian sequence of its    *)
(* base-256 digits without leading zero digits (0n is << >>), because the  *)
(* 64-bit identifiers and the hash do not fit the model checker's          *)
(* integers.  A Uint8Array is a sequence of numbers in 0..255.             *)
(***************************************************************************)
EXTENDS Integers, Sequences, FiniteSets, TLC

VARIABLES
    \* ---- codec scenario: one frame is built, encoded, damaged, decoded
    msg,          \* the Message handed to encode
    enc,          \* the outcome of encode(msg): {bytes, header, payload}
    wire,         \* the bytes handed to decode / decodeHeader
    damage,       \* what was done to the wire bytes after encode
    decoded,      \* decode's outcome
    hdr,          \* decodeHeader's outcome
    \* ---- one Peer of a WebRTCTransport and what surrounds it
    state,              \* Peer.state
    dataChannel,        \* Peer.dataChannel: "null" or "set"
    readyState,         \* readyState of the peer's RTCDataChannel object
    heartbeatTimer,     \* Peer.heartbeatTimer is set
    pendingCandidates,  \* Peer.pendingCandidates
    remoteDescription,  \* pc.remoteDescription is set
    connectionState,    \* pc.connectionState
    offerer,            \* where createOffer() stands
    handler,            \* where handleOffer() / handleAnswer() stands
    received,           \* the candidates handed to handleIceCandidate, in order
    applied,            \* the candidates pc.addIceCandidate accepted, in order
    signaled,           \* the signaling messages the peer has sent
    lastStateChange,    \* the state last passed to onStateChange
    inbound,            \* the chunks the data channel has delivered, in order
    delivered,          \* the chunks whose frame was passed to Peer.onMessage
    messagesReceived,   \* WebRTCTransport.stats.messagesReceived
    messageEvents,      \* the chunks whose frame the transport's onMessage got
    errors,             \* how many times Peer.onError was called
    written,            \* the buffers passed to dataChannel.send, in order
    closeCalls,         \* how many times close() has been called
    lastCall,           \* what the last call of send / sendPing / close did
    \* ---- a WebRTCTransport (the dispatcher) and the peers it manages
    peers,              \* WebRTCTransport.peers: peer id -> peer object, 0 if none
    peerObjects,        \* every Peer the transport has created, in order
    stats,              \* WebRTCTransport.stats
    connectCalls,       \* the calls of connect() that created a peer, in order
    signalsOut,         \* the signaling messages handed to signaling.send
    lastOp,             \* the last step of the transport: a call, or an event
    \* ---- an A2A Task
    task,               \* the Task: its status, artifacts and history
    taskStates,         \* the states the task has taken, from its construction on
    taskJson,           \* what task.toJSON() returned
    taskParsed,         \* what Task.fromJSON made of it
    \* ---- frames built by the factory helpers and the bridge
    causeFrame,         \* a frame that asks for an answer or opens a stream
    derivedFrame,       \* a frame built in reply to it, or as part of its stream
    framesWire,         \* the bytes encode made of the two frames
    framesReceived,     \* what decode made of those bytes
    \* ---- the A2A bridge
    bridgeMessage,      \* the A2A Message the application has built
    bridgeFrame,        \* the frame the bridge built from it, and where it came from
    bridgeWire,         \* the bytes encode made of the frame
    conversion,         \* fromMxp's outcome
    \* ---- an A2A Message and its JSON form
    a2aMessage,         \* the A2A Message the application has built
    messageJson,        \* what message.toJSON() returned
    messageParsed,      \* what Message.fromJSON made of it
    \* ---- an AgentCard and its JSON form
    card,               \* the AgentCard the application has built
    cardJson,           \* the string card.toJSON() returned
    cardParsed,         \* what AgentCard.fromJSON made of it
    \* ---- the in-memory signaling hub
    hubPeers,           \* InMemorySignalingHub.peers: peer id -> handler, 0 if none
    hubTimers,          \* the timers send has set and that have not fired
    hubSent,            \* the messages handed to send, in order
    hubObserved,        \* the calls of handlers, in order
    \* ---- every data channel of one Peer, and its heartbeat intervals
    channels,           \* readyState of each channel handed to setupDataChannel
    intervals,          \* the intervals setInterval has set and nothing has cleared
    heartbeatHandle,    \* Peer.heartbeatTimer: an interval, 0 if undefined
    \* ---- the handshake of one Peer, await by await
    localDescriptions,  \* the descriptions pc.setLocalDescription has applied, in order
    \* ---- one WebSocketSignaling provider and the sockets it has created
    webSocketSignaling  \* its fields, its sockets, its timers, what it has done

codecVars == <<msg, enc, wire, damage, decoded, hdr>>

iceVars == <<pendingCandidates, remoteDescription, handler, received, applied>>

channelVars == <<dataChannel, readyState, heartbeatTimer>>

messageVars == <<inbound, delivered, messagesReceived, messageEvents, errors>>

peerVars ==
    <<state, lastStateChange, connectionState, offerer, signaled, written,
      closeCalls, lastCall, iceVars, channelVars, messageVars>>

transportVars == <<peers, peerObjects, stats, connectCalls, signalsOut, lastOp>>

taskVars == <<task, taskStates, taskJson, taskParsed>>

frameVars == <<causeFrame, derivedFrame, framesWire, framesReceived>>

bridgeVars == <<bridgeMessage, bridgeFrame, bridgeWire, conversion>>

jsonVars == <<a2aMessage, messageJson, messageParsed>>

cardVars == <<card, cardJson, cardParsed>>

hubVars == <<hubPeers, hubTimers, hubSent, hubObserved>>

heartbeatVars == <<channels, intervals, heartbeatHandle>>

handshakeVars == <<localDescriptions>>

relayVars == <<webSocketSignaling>>

\* what the actions of one component leave alone
outsideCodec ==
    <<peerVars, transportVars, taskVars, frameVars,
      bridgeVars, jsonVars, cardVars, hubVars, heartbeatVars, handshakeVars, relayVars>>

outsidePeer ==
    <<codecVars, transportVars, taskVars, frameVars,
      bridgeVars, jsonVars, cardVars, hubVars, heartbeatVars, handshakeVars, relayVars>>

outsideTransport ==
    <<codecVars, peerVars, taskVars, frameVars,
      bridgeVars, jsonVars, cardVars, hubVars, heartbeatVars, handshakeVars, relayVars>>

outsideTask ==
    <<codecVars, peerVars, transportVars, frameVars,
      bridgeVars, jsonVars, cardVars, hubVars, heartbeatVars, handshakeVars, relayVars>>

outsideFrames ==
    <<codecVars, peerVars, transportVars, taskVars,
      bridgeVars, jsonVars, cardVars, hubVars, heartbeatVars, handshakeVars, relayVars>>

outsideBridge ==
    <<codecVars, peerVars, transportVars, taskVars,
      frameVars, jsonVars, cardVars, hubVars, heartbeatVars, handshakeVars, relayVars>>

outsideJson ==
    <<codecVars, peerVars, transportVars, taskVars,
      frameVars, bridgeVars, cardVars, hubVars, heartbeatVars, handshakeVars, relayVars>>

outsideCard ==
    <<codecVars, peerVars, transportVars, taskVars,
      frameVars, bridgeVars, jsonVars, hubVars, heartbeatVars, handshakeVars, relayVars>>

outsideHub ==
    <<codecVars, peerVars, transportVars, taskVars,
      frameVars, bridgeVars, jsonVars, cardVars, heartbeatVars, handshakeVars, relayVars>>

outsideHandshake ==
    <<codecVars, transportVars, taskVars, frameVars,
      bridgeVars, jsonVars, cardVars, hubVars, heartbeatVars, relayVars>>

outsideHeartbeat ==
    <<codecVars, transportVars, taskVars, frameVars,
      bridgeVars, jsonVars, cardVars, hubVars, handshakeVars, relayVars>>

outsideRelay ==
    <<codecVars, peerVars, transportVars, taskVars, frameVars,
      bridgeVars, jsonVars, cardVars, hubVars, heartbeatVars, handshakeVars>>

vars ==
    <<codecVars, peerVars, transportVars, taskVars, frameVars,
      bridgeVars, jsonVars, cardVars, hubVars, heartbeatVars, handshakeVars, relayVars>>

(***************************************************************************)
(* Bounds of the model                                                     *)
(***************************************************************************)
\* longest payload of a frame built in the codec scenario
MaxPayloadLen == 2

(***************************************************************************)
(* Byte and bigint arithmetic                                              *)
(***************************************************************************)
\* A bigint is the sequence of its base-256 digits, least significant first,
\* without leading zero digits (0n is the empty sequence).  The operators are
\* written without recursion (carries are resolved by look-ahead).  A value
\* that is used more than once is bound once, as  The({ e(x) : x \in {v} }).
Byte == 0..255

\* the element of a one-element set
The(S) == CHOOSE r \in S : TRUE

Pow2(n) == <<1, 2, 4, 8, 16, 32, 64, 128, 256>>[n + 1]

\* bit k of a number below 256
Bit(x, k) == (x \div Pow2(k)) % 2

\* a ^ b on two numbers below 256
XorByte(a, b) ==
    IF a = 0 THEN b ELSE IF b = 0 THEN a ELSE
      ((Bit(a, 0) + Bit(b, 0)) % 2)
    + ((Bit(a, 1) + Bit(b, 1)) % 2) * 2
    + ((Bit(a, 2) + Bit(b, 2)) % 2) * 4
    + ((Bit(a, 3) + Bit(b, 3)) % 2) * 8
    + ((Bit(a, 4) + Bit(b, 4)) % 2) * 16
    + ((Bit(a, 5) + Bit(b, 5)) % 2) * 32
    + ((Bit(a, 6) + Bit(b, 6)) % 2) * 64
    + ((Bit(a, 7) + Bit(b, 7)) % 2) * 128

\* a | b on two numbers below 256
OrByte(a, b) ==
    IF a = 0 THEN b ELSE IF b = 0 THEN a ELSE a + b - (a + b - XorByte(a, b)) \div 2

\* drop the leading (most significant) zero digits
BigNorm(d) ==
    The({ IF \A i \in 1..Len(s) : s[i] = 0 THEN << >>
          ELSE SubSeq(s, 1, CHOOSE i \in 1..Len(s) :
                                s[i] # 0 /\ \A j \in (i + 1)..Len(s) : s[j] = 0)
        : s \in {d \o << >>} })

\* digit i (0-based) of a bigint, 0 beyond its length (and below digit 0)
BigDigit(d, i) == IF i >= 0 /\ i + 1 <= Len(d) THEN d[i + 1] ELSE 0

BigMaxLen(a, b) == IF Len(a) >= Len(b) THEN Len(a) ELSE Len(b)

\* a ^ b
BigXor(a, b) ==
    The({ BigNorm([i \in 1..BigMaxLen(x, y) |-> XorByte(BigDigit(x, i - 1), BigDigit(y, i - 1))])
        : x \in {a}, y \in {b} })

\* a | b
BigOr(a, b) ==
    The({ BigNorm([i \in 1..BigMaxLen(x, y) |-> OrByte(BigDigit(x, i - 1), BigDigit(y, i - 1))])
        : x \in {a}, y \in {b} })

\* a & (2^(8n) - 1)
BigMaskBytes(a, n) ==
    The({ BigNorm(SubSeq(s, 1, IF Len(s) < n THEN Len(s) ELSE n)) : s \in {a} })

\* The bigint whose value is the sum of cols[k] * 256^(k-1), every cols[k]
\* below 2^24.  Two passes spread each column over the next ones (c1, c2) and
\* leave columns of at most 257; the last carries (0 or 1) come from look-ahead.
BigFromColumns(cols) ==
    The({ The({ The({
        BigNorm([k \in 1..Len(c2) |->
            (c2[k] + (IF \E j \in 1..(k - 1) :
                            /\ c2[j] >= 256
                            /\ \A m \in (j + 1)..(k - 1) : c2[m] = 255
                      THEN 1 ELSE 0)) % 256])
        : c2 \in {[k \in 1..Len(c1) |->
                      (c1[k] % 256) + (BigDigit(c1, k - 2) \div 256)] \o << >>} })
        : c1 \in {[k \in 1..(Len(c0) + 3) |->
                      (BigDigit(c0, k - 1) % 256) + ((BigDigit(c0, k - 2) \div 256) % 256)
                          + (BigDigit(c0, k - 3) \div 65536)] \o << >>} })
        : c0 \in {cols \o << >>} })

\* a * k for a number k below 256
BigMulSmall(a, k) ==
    The({ BigFromColumns([i \in 1..Len(s) |-> s[i] * k]) : s \in {a} })

\* a * b for b below 2^64: column k holds the sum of a[i] * b[k - i]
BigMul(a, b) ==
    The({ IF x = << >> \/ y = << >> THEN << >>
          ELSE BigFromColumns([k \in 1..(Len(x) + 8) |->
                    BigDigit(x, k - 1) * BigDigit(y, 0) + BigDigit(x, k - 2) * BigDigit(y, 1)
                  + BigDigit(x, k - 3) * BigDigit(y, 2) + BigDigit(x, k - 4) * BigDigit(y, 3)
                  + BigDigit(x, k - 5) * BigDigit(y, 4) + BigDigit(x, k - 6) * BigDigit(y, 5)
                  + BigDigit(x, k - 7) * BigDigit(y, 6) + BigDigit(x, k - 8) * BigDigit(y, 7)])
        : x \in {a}, y \in {b} })

\* a << n
BigShl(a, n) ==
    The({ BigNorm([k \in 1..(Len(s) + q + 1) |->
                      ((BigDigit(s, k - 1 - q) * p) % 256)
                    + ((BigDigit(s, k - 2 - q) * p) \div 256)])
        : s \in {a}, q \in {n \div 8}, p \in {Pow2(n % 8)} })

\* a >> n
BigShr(a, n) ==
    The({ BigNorm([k \in 1..Len(s) |->
                      (BigDigit(s, k - 1 + q) \div p)
                    + ((BigDigit(s, k + q) % p) * (256 \div p))])
        : s \in {a}, q \in {n \div 8}, p \in {Pow2(n % 8)} })

(***************************************************************************)
(* utils.ts                                                                *)
(***************************************************************************)
RECURSIVE bytesToBigIntFrom(_, _)
\* the value of `result` after the loop of bytesToBigInt has run for the
\* indices Len(bytes)-1 down to i
bytesToBigIntFrom(bytes, i) ==
    IF i >= Len(bytes) THEN << >>
    ELSE BigOr(BigShl(bytesToBigIntFrom(bytes, i + 1), 8), BigNorm(<<bytes[i + 1]>>))

bytesToBigInt(bytes) == The({ bytesToBigIntFrom(b, 0) : b \in {bytes} })

\* bigIntToBytes: iteration i stores value & 0xff of the value shifted right
\* by 8 bits i times
bigIntToBytes(value, length) ==
    The({ [i \in 1..length |-> BigDigit(BigMaskBytes(BigShr(v, 8 * (i - 1)), 1), 0)] \o << >>
        : v \in {value} })

prime1 == <<135, 202, 235, 133, 177, 121, 55, 158>>
prime2 == <<79, 235, 212, 39, 61, 174, 178, 194>>

\* a plausible slip: the accumulator is not masked before it is rotated
xxhash64StepUnmasked(hash, b) ==
    The({ BigMaskBytes(BigMul(BigOr(BigShl(h, 31), BigShr(h, 33)), prime2), 8)
        : h \in {BigXor(hash, BigMul(BigNorm(<<b>>), prime1))} })

\* one iteration of xxhash64's loop
xxhash64Step(hash, b) ==
    The({ BigMaskBytes(BigMul(BigOr(BigShl(h, 31), BigShr(h, 33)), prime2), 8)
        : h \in {BigMaskBytes(BigXor(hash, BigMul(BigNorm(<<b>>), prime1)), 8)} })

RECURSIVE xxhash64From(_, _, _, _)
\* the value of `hash` after the loop of xxhash64 has run from the value
\* hash over data[lo-1..hi-1]; the iterations are grouped in halves to keep
\* the evaluation shallow
xxhash64From(hash, data, lo, hi) ==
    IF lo > hi THEN hash
    ELSE IF lo = hi THEN xxhash64Step(hash, data[lo])
    ELSE The({ The({ xxhash64From(half, data, mid + 1, hi)
                   : half \in {xxhash64From(hash, data, lo, mid)} })
             : mid \in {(lo + hi) \div 2} })

xxhash64(data) == The({ xxhash64From(<< >>, d, 1, Len(d)) : d \in {data} })

(***************************************************************************)
(* message.ts                                                              *)
(***************************************************************************)
MessageTypeCall == 1
MessageTypeResponse == 2
MessageTypeError == 3
MessageTypeNotify == 4
MessageTypeStreamOpen == 16
MessageTypeStreamChunk == 17
MessageTypeStreamClose == 18
MessageTypeAgentRegister == 32
MessageTypeAgentDiscover == 33
MessageTypeAgentHeartbeat == 34
MessageTypePing == 240
MessageTypePong == 241

MessageType ==
    {MessageTypeCall, MessageTypeResponse, MessageTypeError, MessageTypeNotify,
     MessageTypeStreamOpen, MessageTypeStreamChunk, MessageTypeStreamClose,
     MessageTypeAgentRegister, MessageTypeAgentDiscover, MessageTypeAgentHeartbeat,
     MessageTypePing, MessageTypePong}

MessageFlagsNone == 0

\* options.k ?? dflt : an option the caller left out is undefined
Opt(options, k, dflt) == IF k \in DOMAIN options THEN options[k] ELSE dflt

\* new Message(messageType, payload, options); the two generated identifiers
\* are what generateMessageId() and generateTraceId() return in this call
NewMessage(messageType, payload, options, genMessageId, genTraceId) ==
    [version       |-> 1,
     messageType   |-> messageType,
     flags         |-> Opt(options, "flags", MessageFlagsNone),
     priority      |-> Opt(options, "priority", 0),
     messageId     |-> genMessageId,
     traceId       |-> Opt(options, "traceId", genTraceId),
     correlationId |-> Opt(options, "correlationId", << >>),
     payload       |-> payload]

(***************************************************************************)
(* codec.ts                                                                *)
(***************************************************************************)
HEADER_SIZE == 64
MAX_PAYLOAD_SIZE == 16777216

\* the outcome of a call: a returned value or a thrown Error (its message)
Ok(v) == [status |-> "ok", value |-> v]
Err(m) == [status |-> "error", error |-> m]
NotCalled == [status |-> "none"]

\* typedArray.set(bytes, offset), offset 0-based
SetBytes(arr, offset, bytes) ==
    The({ [i \in 1..Len(a) |->
              IF i > offset /\ i <= offset + Len(b) THEN b[i - offset] ELSE a[i]] \o << >>
        : a \in {arr}, b \in {bytes} })

\* view.setUint8(offset, v)
SetUint8(arr, offset, v) == SetBytes(arr, offset, <<v % 256>>)

\* view.setUint32(offset, v, true)
SetUint32LE(arr, offset, v) ==
    SetBytes(arr, offset,
             <<v % 256, (v \div 256) % 256, (v \div 65536) % 256, (v \div 16777216) % 256>>)

\* view.getUint8(offset)
GetUint8(arr, offset) == arr[offset + 1]

\* view.getUint32(offset, true)
GetUint32LE(arr, offset) ==
    arr[offset + 1] + 256 * arr[offset + 2] + 65536 * arr[offset + 3]
        + 16777216 * arr[offset + 4]

\* arr.slice(from, to), 0-based, to exclusive, clamped to the length
Slice(arr, from, to) ==
    The({ IF from >= Len(a) \/ from >= to THEN << >>
          ELSE SubSeq(a, from + 1, IF to > Len(a) THEN Len(a) ELSE to)
        : a \in {arr} })

\* the values the running offset of encodeHeader / decodeHeader takes
OffVersion == 0
OffMessageType == OffVersion + 1
OffFlags == OffMessageType + 1
OffPriority == OffFlags + 1
OffMessageId == OffPriority + 1 + 4
OffTraceId == OffMessageId + 8
OffCorrelationId == OffTraceId + 8
OffPayloadLength == OffCorrelationId + 8
OffChecksum == OffPayloadLength + 4 + 12

encodeHeader(message) ==
    LET h0 == [i \in 1..HEADER_SIZE |-> 0]
        h1 == SetUint8(h0, OffVersion, message.version)
        h2 == SetUint8(h1, OffMessageType, message.messageType)
        h3 == SetUint8(h2, OffFlags, message.flags)
        h4 == SetUint8(h3, OffPriority, message.priority)
        h5 == SetBytes(h4, OffMessageId, bigIntToBytes(message.messageId, 8))
        h6 == SetBytes(h5, OffTraceId, bigIntToBytes(message.traceId, 8))
        h7 == SetBytes(h6, OffCorrelationId, bigIntToBytes(message.correlationId, 8))
        h8 == SetUint32LE(h7, OffPayloadLength, Len(message.payload))
    IN  SetBytes(h8, OffChecksum, bigIntToBytes(xxhash64(message.payload), 8))

\* a plausible slip: the payload is copied one byte too early
encodePayloadOneEarly(message) ==
    The({ [bytes   |-> SetBytes(SetBytes([i \in 1..(Len(header) + Len(payload)) |-> 0],
                                         0, header),
                                Len(header) - 1, payload),
           header  |-> header,
           payload |-> payload]
        : header \in {encodeHeader(message)}, payload \in {message.payload} })

encode(message) ==
    The({ [bytes   |-> SetBytes(SetBytes([i \in 1..(Len(header) + Len(payload)) |-> 0],
                                         0, header),
                                Len(header), payload),
           header  |-> header,
           payload |-> payload]
        : header \in {encodeHeader(message)}, payload \in {message.payload} })

encodedSize(message) == HEADER_SIZE + Len(message.payload)

\* the fields decodeHeader reads from a header of at least 64 bytes
decodeHeaderFields(headerBytes) ==
    [version       |-> GetUint8(headerBytes, OffVersion),
     messageType   |-> GetUint8(headerBytes, OffMessageType),
     flags         |-> GetUint8(headerBytes, OffFlags),
     priority      |-> GetUint8(headerBytes, OffPriority),
     messageId     |-> bytesToBigInt(Slice(headerBytes, OffMessageId, OffMessageId + 8)),
     traceId       |-> bytesToBigInt(Slice(headerBytes, OffTraceId, OffTraceId + 8)),
     correlationId |-> bytesToBigInt(Slice(headerBytes, OffCorrelationId, OffCorrelationId + 8)),
     payloadLength |-> GetUint32LE(headerBytes, OffPayloadLength),
     checksum      |-> bytesToBigInt(Slice(headerBytes, OffChecksum, OffChecksum + 8))]

\* a plausible slip: no length check, bytes that are not there read as 0
decodeHeaderNoLengthCheck(headerBytes) ==
    The({ Ok(decodeHeaderFields(b))
        : b \in {headerBytes \o [i \in 1..(HEADER_SIZE - Len(headerBytes)) |-> 0]} })

decodeHeader(headerBytes) ==
    The({ IF Len(b) < HEADER_SIZE THEN Err("Header too short") ELSE Ok(decodeHeaderFields(b))
        : b \in {headerBytes} })

\* a plausible slip: the checksum is read but never compared
decodeRawNoVerify(bytes) ==
    The({ IF header.status = "error" THEN header
          ELSE Ok([header  |-> header.value,
                   payload |-> Slice(bytes, HEADER_SIZE,
                                     HEADER_SIZE + header.value.payloadLength)])
        : header \in {decodeHeader(Slice(bytes, 0, HEADER_SIZE))} })

decodeRaw(bytes) ==
    The({ IF header.status = "error" THEN header
          ELSE The({ IF xxhash64(payload) # header.value.checksum
                     THEN Err("Checksum mismatch")
                     ELSE Ok([header |-> header.value, payload |-> payload])
                   : payload \in {Slice(bytes, HEADER_SIZE,
                                        HEADER_SIZE + header.value.payloadLength)} })
        : header \in {decodeHeader(Slice(bytes, 0, HEADER_SIZE))} })

\* the Message decode constructs from what decodeRaw returned
decodedMessage(raw, genMessageId, genTraceId) ==
    NewMessage(raw.header.messageType, raw.payload,
               [flags         |-> raw.header.flags,
                priority      |-> raw.header.priority,
                traceId       |-> raw.header.traceId,
                correlationId |-> raw.header.correlationId],
               genMessageId, genTraceId)

\* a plausible slip: the constructor's fresh messageId is kept
decodeFreshMessageId(bytes, genMessageId, genTraceId) ==
    IF Len(bytes) < HEADER_SIZE
    THEN Err("Message too short")
    ELSE The({ IF raw.status = "error" THEN raw
               ELSE Ok(decodedMessage(raw.value, genMessageId, genTraceId))
             : raw \in {decodeRaw(bytes)} })

decode(bytes, genMessageId, genTraceId) ==
    IF Len(bytes) < HEADER_SIZE
    THEN Err("Message too short")
    ELSE The({ IF raw.status = "error" THEN raw
               ELSE Ok([decodedMessage(raw.value, genMessageId, genTraceId)
                           EXCEPT !.messageId = raw.value.header.messageId])
             : raw \in {decodeRaw(bytes)} })

(***************************************************************************)
(* message.ts: the factory helpers                                         *)
(***************************************************************************)
\* Message.ping()
ping(genMessageId, genTraceId) ==
    NewMessage(MessageTypePing, << >>, << >>, genMessageId, genTraceId)

\* a variant of pong that leaves the trace id to the constructor
pongFreshTrace(pingMessage, genMessageId, genTraceId) ==
    NewMessage(MessageTypePong, << >>, [correlationId |-> pingMessage.messageId],
               genMessageId, genTraceId)

\* Message.pong(ping)
pong(pingMessage, genMessageId, genTraceId) ==
    NewMessage(MessageTypePong, << >>,
               [correlationId |-> pingMessage.messageId, traceId |-> pingMessage.traceId],
               genMessageId, genTraceId)

\* Message.isStreaming
isStreaming(message) ==
    \/ message.messageType = MessageTypeStreamOpen
    \/ message.messageType = MessageTypeStreamChunk
    \/ message.messageType = MessageTypeStreamClose

\* { ...options, correlationId }: the caller's options with the correlation
\* id of the helper's argument
WithCorrelationId(options, correlationId) ==
    [k \in DOMAIN options \cup {"correlationId"} |->
        IF k = "correlationId" THEN correlationId ELSE options[k]]

\* Message.call(payload, options)
call(payload, options, genMessageId, genTraceId) ==
    NewMessage(MessageTypeCall, payload, options, genMessageId, genTraceId)

\* Message.response(payload, correlationId, options)
response(payload, correlationId, options, genMessageId, genTraceId) ==
    NewMessage(MessageTypeResponse, payload, WithCorrelationId(options, correlationId),
               genMessageId, genTraceId)

\* Message.error(payload, correlationId, options)
error(payload, correlationId, options, genMessageId, genTraceId) ==
    NewMessage(MessageTypeError, payload, WithCorrelationId(options, correlationId),
               genMessageId, genTraceId)

\* Message.streamOpen(payload, options)
streamOpen(payload, options, genMessageId, genTraceId) ==
    NewMessage(MessageTypeStreamOpen, payload, options, genMessageId, genTraceId)

\* Message.streamChunk(payload, correlationId, options)
streamChunk(payload, correlationId, options, genMessageId, genTraceId) ==
    NewMessage(MessageTypeStreamChunk, payload, WithCorrelationId(options, correlationId),
               genMessageId, genTraceId)

\* Message.streamClose(correlationId, options)
streamClose(correlationId, options, genMessageId, genTraceId) ==
    NewMessage(MessageTypeStreamClose, << >>, WithCorrelationId(options, correlationId),
               genMessageId, genTraceId)

(***************************************************************************)
(* transport/types.ts, transport/peer.ts, transport/webrtc.ts              *)
(*                                                                         *)
(* The model follows one Peer that a WebRTCTransport has created, with one *)
(* RTCDataChannel (its own, from createOffer, or the remote one, from      *)
(* ondatachannel) and at most one Offer or Answer being handled.  An async *)
(* method is one step per stretch of code between two awaits that another  *)
(* task can interleave with.                                               *)
(***************************************************************************)
ConnectionState ==
    {"new", "connecting", "connected", "disconnected", "failed", "closed"}

\* Peer.mapConnectionState
mapConnectionState(rtcState) ==
    CASE rtcState = "new" -> "new"
      [] rtcState = "connecting" -> "connecting"
      [] rtcState = "connected" -> "connected"
      [] rtcState = "disconnected" -> "disconnected"
      [] rtcState = "failed" -> "failed"
      [] rtcState = "closed" -> "closed"
      [] OTHER -> "new"

\* Peer.updateState
updateState(newState) ==
    IF state # newState
    THEN /\ state' = newState
         /\ lastStateChange' = newState
    ELSE UNCHANGED <<state, lastStateChange>>

\* the ids of the remote peers the transport deals with
PeerIds == {"alice", "bob"}

\* no Offer and no Answer has been handed to the peer
NoHandler == [kind |-> "none", at |-> "idle", index |-> 0]

\* no call of send, sendPing or close has been made
NoCall == [op |-> "none"]

\* the fields of a Peer after its constructor, and its surroundings
PeerNew ==
    /\ state = "new"
    /\ dataChannel = "null"
    /\ readyState = "none"
    /\ heartbeatTimer = FALSE
    /\ pendingCandidates = << >>
    /\ remoteDescription = FALSE
    /\ connectionState = "new"
    /\ offerer = "idle"
    /\ handler = NoHandler
    /\ received = << >>
    /\ applied = << >>
    /\ signaled = << >>
    /\ lastStateChange = "none"
    /\ inbound = << >>
    /\ delivered = << >>
    /\ messagesReceived = 0
    /\ messageEvents = << >>
    /\ errors = 0
    /\ written = << >>
    /\ closeCalls = 0
    /\ lastCall = NoCall

\* a WebRTCTransport after its constructor
TransportNew ==
    /\ peers = [id \in PeerIds |-> 0]
    /\ peerObjects = << >>
    /\ stats = [messagesSent |-> 0, bytesSent |-> 0, peersConnected |-> 0]
    /\ connectCalls = << >>
    /\ signalsOut = << >>
    /\ lastOp = [op |-> "none"]

\* a variant in which the promises of a closed connection still resolve
pcSettlesWhenClosed(rtcState) == TRUE

\* the promise a method of the RTCPeerConnection returned resolves only on
\* a connection that is not closed; on a closed one it rejects or stays
\* pending, and the code after the await does not run
pcSettles(rtcState) == rtcState # "closed"

\* pc.addIceCandidate succeeds only with a remote description on a
\* connection that is not closed
addIceCandidateAccepts == remoteDescription /\ connectionState # "closed"

\* a variant of handleIceCandidate without the queue
handleIceCandidateUnqueued(hasRemoteDescription) == "addIceCandidate"

\* Peer.handleIceCandidate: what is done with the candidate
handleIceCandidate(hasRemoteDescription) ==
    IF hasRemoteDescription THEN "addIceCandidate" ELSE "push"

\* a variant of processPendingCandidates that empties the queue without
\* handing the candidates to the connection
processPendingCandidatesUnapplied(i) ==
    /\ pendingCandidates' = << >>
    /\ handler' = [handler EXCEPT
                     !.at = IF handler.kind = "offer" THEN "createAnswer" ELSE "done",
                     !.index = 0]
    /\ UNCHANGED applied

\* Peer.processPendingCandidates, about to take element i of the array: the
\* next candidate is handed to pc.addIceCandidate, or the loop is over, the
\* array is replaced by an empty one and the caller goes on
processPendingCandidates(i) ==
    IF i <= Len(pendingCandidates)
    THEN /\ applied' = Append(applied, pendingCandidates[i])
         /\ handler' = [handler EXCEPT !.at = "addIceCandidate", !.index = i]
         /\ UNCHANGED pendingCandidates
    ELSE /\ pendingCandidates' = << >>
         /\ handler' = [handler EXCEPT
                          !.at = IF handler.kind = "offer" THEN "createAnswer" ELSE "done",
                          !.index = 0]
         /\ UNCHANGED applied

\* the condition of Peer.send and Peer.sendBytes
ChannelOpen == dataChannel # "null" /\ readyState = "open"

\* Peer.send: what it throws or returns, and the buffers written after it
send(message) ==
    IF ~ChannelOpen
    THEN [result |-> Err("Data channel not open"), written |-> written]
    ELSE [result |-> Ok("undefined"),
          written |-> Append(written, encode(message).bytes)]

\* a variant of handleMessage that drops a chunk that fails to decode
\* without a word
handleMessageSilent(message) ==
    IF message.status = "error" THEN "return"
    ELSE IF message.value.messageType = MessageTypePing THEN "sendPong"
    ELSE IF message.value.messageType = MessageTypePong THEN "return"
    ELSE "onMessage"

\* a variant of handleMessage without the Pong branch
handleMessageNoPongBranch(message) ==
    IF message.status = "error" THEN "onError"
    ELSE IF message.value.messageType = MessageTypePing THEN "sendPong"
    ELSE "onMessage"

\* Peer.handleMessage: the branch taken for decode's outcome
handleMessage(message) ==
    IF message.status = "error" THEN "onError"
    ELSE IF message.value.messageType = MessageTypePing THEN "sendPong"
    ELSE IF message.value.messageType = MessageTypePong THEN "return"
    ELSE "onMessage"

\* DEFAULT_CONFIG.heartbeatInterval, in milliseconds
heartbeatInterval == 5000

\* Peer.startHeartbeat: the intervals set and Peer.heartbeatTimer after it;
\* created is the interval setInterval returns
startHeartbeat(created) ==
    IF heartbeatInterval > 0
    THEN [intervals |-> intervals \cup {created}, heartbeatHandle |-> created]
    ELSE [intervals |-> intervals, heartbeatHandle |-> heartbeatHandle]

\* Peer.stopHeartbeat: the same after clearInterval(this.heartbeatTimer)
stopHeartbeat ==
    IF heartbeatHandle # 0
    THEN [intervals |-> intervals \ {heartbeatHandle}, heartbeatHandle |-> 0]
    ELSE [intervals |-> intervals, heartbeatHandle |-> heartbeatHandle]

(***************************************************************************)
(* WebRTCTransport, the dispatcher.  Its methods are functions of a world  *)
(* w: the peer map, the peers created so far, the statistics, the calls of *)
(* connect and the signaling messages sent.                                *)
(***************************************************************************)
\* WebRTCTransport.localId
LocalId == "local"

\* another dispatcher's id
OtherId == "carol"

\* the order in which the peer map is walked; the sends of one broadcast
\* do not depend on each other
PeerOrder == <<"alice", "bob">>

\* new Peer(peerId, localId, config, sendSignaling), as the transport sees
\* it; stateChange names the handler in the peer's one stateChange slot: 0
\* is the handler of createPeer, c > 0 is checkState of connect call c
newPeer(peerId) ==
    [id |-> peerId, state |-> "new", connectionState |-> "new",
     dataChannel |-> FALSE, readyState |-> "none",
     localDescription |-> FALSE, remoteDescription |-> FALSE,
     pendingCandidates |-> 0, applied |-> 0, awaiting |-> "none",
     stateChange |-> 0, written |-> 0, closeCalls |-> 0]

\* Peer.isConnected
isConnected(peer) == peer.state = "connected"

\* WebRTCTransport.getConnectedPeers
getConnectedPeers(w) ==
    The({ {id \in PeerIds : IF x.peers[id] = 0 THEN FALSE
                            ELSE isConnected(x.peerObjects[x.peers[id]])}
        : x \in {w} })

\* WebRTCTransport.updatePeerCount
updatePeerCount(w) ==
    The({ [x EXCEPT !.stats.peersConnected = Cardinality(getConnectedPeers(x))]
        : x \in {w} })

\* the stateChange handler createPeer registers
stateChangeHandler(w, newState) ==
    The({ IF s \in {"connected", "disconnected", "closed"}
          THEN updatePeerCount(x) ELSE x
        : x \in {w}, s \in {newState} })

\* checkState of waitForConnection, for connect call c; resolve and reject
\* do nothing to a promise that has settled
checkState(w, c, newState) ==
    The({ IF x.connectCalls[k].result # "pending" THEN x
          ELSE IF s = "connected"
          THEN [x EXCEPT !.connectCalls[k].at = "settled",
                         !.connectCalls[k].result = "resolved"]
          ELSE IF s = "failed"
          THEN [x EXCEPT !.connectCalls[k].at = "settled",
                         !.connectCalls[k].result = "Connection failed"]
          ELSE x
        : x \in {w}, k \in {c}, s \in {newState} })

\* Peer.updateState of peer i, with the handler in its stateChange slot
peerUpdateState(w, i, newState) ==
    The({ IF x.peerObjects[k].state = s THEN x
          ELSE The({ IF h = 0 THEN stateChangeHandler(y, s) ELSE checkState(y, h, s)
                   : y \in {[x EXCEPT !.peerObjects[k].state = s]},
                     h \in {x.peerObjects[k].stateChange} })
        : x \in {w}, k \in {i}, s \in {newState} })

\* Peer.close of peer i; a channel that is null has no readyState to change
peerClose(w, i) ==
    The({ peerUpdateState(
              [x EXCEPT !.peerObjects[k].dataChannel = FALSE,
                        !.peerObjects[k].readyState =
                            IF @ \in {"connecting", "open"} THEN "closing" ELSE @,
                        !.peerObjects[k].connectionState = "closed",
                        !.peerObjects[k].closeCalls = @ + 1],
              k, "closed")
        : x \in {w}, k \in {i} })

\* WebRTCTransport.createPeer
createPeer(w, peerId) == [w EXCEPT !.peerObjects = Append(@, newPeer(peerId))]

\* Peer.createOffer of peer i, up to its first await
peerCreateOffer(w, i) ==
    The({ The({ [x EXCEPT !.peerObjects[k].dataChannel = TRUE,
                          !.peerObjects[k].readyState = "connecting"]
              : x \in {peerUpdateState(w, k, "connecting")} })
        : k \in {i} })

\* WebRTCTransport.connect from createPeer to the first await, as call c
\* on the new peer n
connectNewPeer(w, peerId) ==
    The({ peerCreateOffer(
              [x EXCEPT !.peers[id] = Len(x.peerObjects),
                        !.connectCalls = Append(@,
                            [peerId |-> id, peer |-> Len(x.peerObjects),
                             at |-> "createOffer", result |-> "pending"])],
              Len(x.peerObjects))
        : x \in {createPeer(w, peerId)}, id \in {peerId} })

\* a variant of connect that replaces the existing peer without closing it
connectWithoutClose(w, peerId) ==
    The({ IF IF x.peers[id] = 0 THEN FALSE ELSE isConnected(x.peerObjects[x.peers[id]])
          THEN x
          ELSE connectNewPeer(x, id)
        : x \in {w}, id \in {peerId} })

\* WebRTCTransport.connect, up to its first await
connect(w, peerId) ==
    The({ IF IF x.peers[id] = 0 THEN FALSE ELSE isConnected(x.peerObjects[x.peers[id]])
          THEN x
          ELSE connectNewPeer(IF x.peers[id] = 0 THEN x ELSE peerClose(x, x.peers[id]), id)
        : x \in {w}, id \in {peerId} })

\* WebRTCTransport.waitForConnection for connect call c, up to its return
waitForConnection(w, c) ==
    The({ IF isConnected(x.peerObjects[x.connectCalls[k].peer])
          THEN [x EXCEPT !.connectCalls[k].at = "settled",
                         !.connectCalls[k].result = "resolved"]
          ELSE [x EXCEPT !.connectCalls[k].at = "waiting",
                         !.peerObjects[x.connectCalls[k].peer].stateChange = k]
        : x \in {w}, k \in {c} })

\* WebRTCTransport.disconnect
disconnect(w, peerId) ==
    The({ IF x.peers[id] = 0 THEN x
          ELSE updatePeerCount([peerClose(x, x.peers[id]) EXCEPT !.peers[id] = 0])
        : x \in {w}, id \in {peerId} })

\* Peer.send of peer i: whether it throws
peerSend(peer) ==
    IF ~peer.dataChannel \/ peer.readyState # "open"
    THEN Err("Data channel not open")
    ELSE Ok("undefined")

\* a variant of WebRTCTransport.send that counts before the peer has sent
transportSendCountFirst(w, peerId, bytes) ==
    The({ IF x.peers[id] = 0
          THEN [world |-> x, result |-> Err("Peer not found")]
          ELSE IF ~isConnected(x.peerObjects[x.peers[id]])
          THEN [world |-> x, result |-> Err("Peer not connected")]
          ELSE The({ IF sent.status = "error" THEN [world |-> y, result |-> sent]
                     ELSE [world |-> [y EXCEPT !.peerObjects[y.peers[id]].written = @ + 1],
                           result |-> sent]
                   : y \in {[x EXCEPT !.stats.messagesSent = @ + 1,
                                      !.stats.bytesSent = @ + Len(bytes)]},
                     sent \in {peerSend(x.peerObjects[x.peers[id]])} })
        : x \in {w}, id \in {peerId} })

\* WebRTCTransport.send of a message that encodes to bytes: the world after
\* it and what it returns or throws
transportSend(w, peerId, bytes) ==
    The({ IF x.peers[id] = 0
          THEN [world |-> x, result |-> Err("Peer not found")]
          ELSE IF ~isConnected(x.peerObjects[x.peers[id]])
          THEN [world |-> x, result |-> Err("Peer not connected")]
          ELSE The({ IF sent.status = "error" THEN [world |-> x, result |-> sent]
                     ELSE [world |-> [x EXCEPT !.peerObjects[x.peers[id]].written = @ + 1,
                                               !.stats.messagesSent = @ + 1,
                                               !.stats.bytesSent = @ + Len(bytes)],
                           result |-> sent]
                   : sent \in {peerSend(x.peerObjects[x.peers[id]])} })
        : x \in {w}, id \in {peerId} })

\* the body of the loop of broadcast for the entry of peerId; r is the
\* world so far with the peers tried and the peers that took the frame
broadcastTo(r, peerId, length) ==
    The({ IF IF x.world.peers[id] = 0 THEN TRUE
             ELSE ~isConnected(x.world.peerObjects[x.world.peers[id]])
          THEN x
          ELSE IF peerSend(x.world.peerObjects[x.world.peers[id]]).status = "error"
          THEN [x EXCEPT !.attempted = @ \cup {id}]
          ELSE [x EXCEPT !.attempted = @ \cup {id},
                         !.succeeded = @ \cup {id},
                         !.world.peerObjects[x.world.peers[id]].written = @ + 1,
                         !.world.stats.messagesSent = @ + 1,
                         !.world.stats.bytesSent = @ + length]
        : x \in {r}, id \in {peerId} })

\* a variant of the loop body that lets the first failure end the broadcast
broadcastToOrAbort(r, peerId, length) ==
    IF r.attempted # r.succeeded THEN r ELSE broadcastTo(r, peerId, length)

RECURSIVE broadcastFrom(_, _, _)
\* the first n rounds of the loop of broadcast
broadcastFrom(w, length, n) ==
    IF n = 0 THEN [world |-> w, attempted |-> {}, succeeded |-> {}]
    ELSE broadcastTo(broadcastFrom(w, length, n - 1), PeerOrder[n], length)

RECURSIVE broadcastFromOrAbort(_, _, _)
broadcastFromOrAbort(w, length, n) ==
    IF n = 0 THEN [world |-> w, attempted |-> {}, succeeded |-> {}]
    ELSE broadcastToOrAbort(broadcastFromOrAbort(w, length, n - 1), PeerOrder[n], length)

\* a variant of broadcast that stops at the first peer whose send fails
broadcastAborting(w, bytes) ==
    broadcastFromOrAbort(w, Len(bytes), Len(PeerOrder))

\* WebRTCTransport.broadcast of a message that encodes to bytes
broadcast(w, bytes) ==
    broadcastFrom(w, Len(bytes), Len(PeerOrder))

\* Peer.handleOffer of peer i, up to its first await
peerHandleOffer(w, i) ==
    The({ [peerUpdateState(w, k, "connecting") EXCEPT !.peerObjects[k].awaiting = "offer"]
        : k \in {i} })

\* WebRTCTransport.handleOffer
transportHandleOffer(w, signal) ==
    The({ IF x.peers[from] = 0
          THEN The({ peerHandleOffer([y EXCEPT !.peers[from] = Len(y.peerObjects)],
                                     Len(y.peerObjects))
                   : y \in {createPeer(x, from)} })
          ELSE peerHandleOffer(x, x.peers[from])
        : x \in {w}, from \in {signal.from} })

\* a variant of handleAnswer that looks the peer up the way handleOffer does
transportHandleAnswerOrCreate(w, signal) ==
    The({ IF x.peers[from] = 0
          THEN The({ [y EXCEPT !.peers[from] = Len(y.peerObjects),
                               !.peerObjects[Len(y.peerObjects)].awaiting = "answer"]
                   : y \in {createPeer(x, from)} })
          ELSE [x EXCEPT !.peerObjects[x.peers[from]].awaiting = "answer"]
        : x \in {w}, from \in {signal.from} })

\* WebRTCTransport.handleAnswer, with Peer.handleAnswer up to its first await
transportHandleAnswer(w, signal) ==
    The({ IF x.peers[from] = 0 THEN x
          ELSE [x EXCEPT !.peerObjects[x.peers[from]].awaiting = "answer"]
        : x \in {w}, from \in {signal.from} })

\* Peer.handleIceCandidate of peer i
peerHandleIceCandidate(w, i) ==
    The({ IF x.peerObjects[k].remoteDescription
          THEN [x EXCEPT !.peerObjects[k].applied = @ + 1]
          ELSE [x EXCEPT !.peerObjects[k].pendingCandidates = @ + 1]
        : x \in {w}, k \in {i} })

\* WebRTCTransport.handleIceCandidate
transportHandleIceCandidate(w, signal) ==
    The({ IF x.peers[m.from] # 0 /\ m.payload # "null"
          THEN peerHandleIceCandidate(x, x.peers[m.from])
          ELSE x
        : x \in {w}, m \in {signal} })

\* WebRTCTransport.handleHangup
handleHangup(w, signal) == disconnect(w, signal.from)

\* the switch of handleSignalingMessage
dispatchSignaling(w, signal) ==
    The({ CASE m.type = "offer" -> transportHandleOffer(x, m)
            [] m.type = "answer" -> transportHandleAnswer(x, m)
            [] m.type = "ice-candidate" -> transportHandleIceCandidate(x, m)
            [] m.type = "hangup" -> handleHangup(x, m)
            [] OTHER -> x
        : x \in {w}, m \in {signal} })

\* a variant of handleSignalingMessage that handles whatever it is given
handleSignalingMessageForAnyone(w, signal) == dispatchSignaling(w, signal)

\* WebRTCTransport.handleSignalingMessage, up to the first await of the
\* handler it calls
handleSignalingMessage(w, signal) ==
    IF signal.to # LocalId THEN w ELSE dispatchSignaling(w, signal)

(***************************************************************************)
(* JavaScript values, JSON and UTF-8, as far as the bridge uses them       *)
(***************************************************************************)
\* A JavaScript string is the sequence of its UTF-16 code units.  A value is
\* a record: t is its type, n the number (1 / 0 for true / false), s the
\* string, items the elements of an array or the members of an object, in
\* insertion order.
JSValue(t, n, s, items) == [t |-> t, n |-> n, s |-> s, items |-> items]

JSUndefined == JSValue("undefined", 0, << >>, << >>)
JSNull == JSValue("null", 0, << >>, << >>)
JSTrue == JSValue("boolean", 1, << >>, << >>)
JSFalse == JSValue("boolean", 0, << >>, << >>)
JSNumber(n) == JSValue("number", n, << >>, << >>)
JSString(s) == JSValue("string", 0, s, << >>)
JSArray(items) == JSValue("array", 0, << >>, items)
JSObject(members) == JSValue("object", 0, << >>, members)
Member(key, value) == [key |-> key, value |-> value]

\* ToBoolean(v): what `v && ...`, `v || ...` and `if (v)` test
Truthy(v) ==
    The({ CASE x.t \in {"undefined", "null"} -> FALSE
            [] x.t \in {"boolean", "number"} -> x.n # 0
            [] x.t = "string" -> x.s # << >>
            [] OTHER -> TRUE
        : x \in {v} })

\* v[key] of a value that is neither null nor undefined, for a key that is
\* not a built-in property: the member of an object, else undefined
GetProperty(v, key) ==
    The({ IF x.t = "object" /\ \E i \in DOMAIN x.items : x.items[i].key = key
          THEN x.items[CHOOSE i \in DOMAIN x.items :
                          /\ x.items[i].key = key
                          /\ \A j \in DOMAIN x.items : x.items[j].key = key => j <= i].value
          ELSE JSUndefined
        : x \in {v} })

IsHighSurrogate(u) == u >= 55296 /\ u <= 56319
IsLowSurrogate(u) == u >= 56320 /\ u <= 57343

\* code unit i of s is one half of a surrogate pair
PairedHigh(s, i) == IsHighSurrogate(s[i]) /\ i < Len(s) /\ IsLowSurrogate(s[i + 1])
PairedLow(s, i) == IsLowSurrogate(s[i]) /\ i > 1 /\ IsHighSurrogate(s[i - 1])

HexDigit(d) == IF d < 10 THEN 48 + d ELSE 87 + d

\* \uXXXX, lower-case digits
UnicodeEscape(u) ==
    <<92, 117, HexDigit(u \div 4096), HexDigit((u \div 256) % 16),
      HexDigit((u \div 16) % 16), HexDigit(u % 16)>>

\* JSON.stringify, QuoteJSONString: what code unit i of s becomes
QuoteUnit(s, i) ==
    The({ CASE u = 8 -> <<92, 98>>
            [] u = 9 -> <<92, 116>>
            [] u = 10 -> <<92, 110>>
            [] u = 12 -> <<92, 102>>
            [] u = 13 -> <<92, 114>>
            [] u = 34 -> <<92, 34>>
            [] u = 92 -> <<92, 92>>
            [] u < 32 /\ u \notin {8, 9, 10, 12, 13} -> UnicodeEscape(u)
            [] IsHighSurrogate(u) -> IF PairedHigh(s, i) THEN <<u>> ELSE UnicodeEscape(u)
            [] IsLowSurrogate(u) -> IF PairedLow(s, i) THEN <<u>> ELSE UnicodeEscape(u)
            [] OTHER -> <<u>>
        : u \in {s[i]} })

RECURSIVE Concat(_, _, _)
\* pieces[lo] \o ... \o pieces[hi], joined in halves to keep the evaluation
\* shallow
Concat(pieces, lo, hi) ==
    IF lo > hi THEN << >>
    ELSE IF lo = hi THEN pieces[lo]
    ELSE The({ Concat(pieces, lo, mid) \o Concat(pieces, mid + 1, hi)
             : mid \in {(lo + hi) \div 2} })

QuoteJSONString(s) ==
    The({ The({ <<34>> \o Concat(pieces, 1, Len(pieces)) \o <<34>>
              : pieces \in {[i \in 1..Len(x) |-> QuoteUnit(x, i)]} })
        : x \in {s} })

RECURSIVE Digits(_)
\* the decimal digits of a natural number
Digits(n) == IF n < 10 THEN <<48 + n>> ELSE Digits(n \div 10) \o <<48 + (n % 10)>>

\* Number::toString of an integer
NumberToString(n) == IF n < 0 THEN <<45>> \o Digits(0 - n) ELSE Digits(n)

RECURSIVE SerializeJSONProperty(_)
RECURSIVE SerializeJSONArray(_, _)
RECURSIVE SerializeJSONObject(_, _)
\* JSON.stringify's SerializeJSONProperty for a value without toJSON
SerializeJSONProperty(v) ==
    The({ CASE x.t = "null" -> <<110, 117, 108, 108>>
            [] x.t = "boolean" -> IF x.n = 1 THEN <<116, 114, 117, 101>>
                                  ELSE <<102, 97, 108, 115, 101>>
            [] x.t = "number" -> NumberToString(x.n)
            [] x.t = "string" -> QuoteJSONString(x.s)
            [] x.t = "array" -> <<91>> \o SerializeJSONArray(x.items, Len(x.items)) \o <<93>>
            [] x.t = "object" -> <<123>> \o SerializeJSONObject(x.items, Len(x.items)) \o <<125>>
        : x \in {v} })

\* the first n elements, separated by commas; undefined is written as null
SerializeJSONArray(items, n) ==
    IF n = 0 THEN << >>
    ELSE The({ (IF n = 1 THEN << >> ELSE SerializeJSONArray(items, n - 1) \o <<44>>)
               \o (IF x.t = "undefined" THEN <<110, 117, 108, 108>>
                   ELSE SerializeJSONProperty(x))
             : x \in {items[n]} })

\* the first n members, separated by commas; a member whose value is
\* undefined is left out
SerializeJSONObject(members, n) ==
    IF n = 0 THEN << >>
    ELSE The({ IF x.value.t = "undefined" THEN before
               ELSE (IF before = << >> THEN << >> ELSE before \o <<44>>)
                    \o QuoteJSONString(x.key) \o <<58>> \o SerializeJSONProperty(x.value)
             : x \in {members[n]}, before \in {SerializeJSONObject(members, n - 1)} })

\* JSON.stringify(value) of a value that is not undefined
JSONstringify(value) == SerializeJSONProperty(value)

RECURSIVE SerializeJSONPropertyGap(_, _, _)
RECURSIVE SerializeJSONArrayGap(_, _, _, _)
RECURSIVE SerializeJSONObjectGap(_, _, _, _)
\* SerializeJSONProperty with a gap that is not empty: the elements of an
\* array and the members of an object stand on lines of their own, indented
\* by the gap once more than the line the container opens on
SerializeJSONPropertyGap(v, indent, gap) ==
    The({ CASE x.t = "null" -> <<110, 117, 108, 108>>
            [] x.t = "boolean" -> IF x.n = 1 THEN <<116, 114, 117, 101>>
                                  ELSE <<102, 97, 108, 115, 101>>
            [] x.t = "number" -> NumberToString(x.n)
            [] x.t = "string" -> QuoteJSONString(x.s)
            [] x.t = "array" ->
                 IF x.items = << >> THEN <<91, 93>>
                 ELSE <<91, 10>> \o inner
                      \o SerializeJSONArrayGap(x.items, Len(x.items), inner, g)
                      \o <<10>> \o stepback \o <<93>>
            [] x.t = "object" ->
                 The({ IF partial = << >> THEN <<123, 125>>
                       ELSE <<123, 10>> \o inner \o partial \o <<10>> \o stepback \o <<125>>
                     : partial \in {SerializeJSONObjectGap(x.items, Len(x.items), inner, g)} })
        : x \in {v}, stepback \in {indent}, inner \in {indent \o gap}, g \in {gap} })

\* the first n elements, separated by a comma, a line feed and the indent
SerializeJSONArrayGap(items, n, indent, gap) ==
    IF n = 0 THEN << >>
    ELSE The({ (IF n = 1 THEN << >>
                ELSE SerializeJSONArrayGap(items, n - 1, inner, g) \o <<44, 10>> \o inner)
               \o (IF x.t = "undefined" THEN <<110, 117, 108, 108>>
                   ELSE SerializeJSONPropertyGap(x, inner, g))
             : x \in {items[n]}, inner \in {indent}, g \in {gap} })

\* the first n members, separated likewise, a space after each colon
SerializeJSONObjectGap(members, n, indent, gap) ==
    IF n = 0 THEN << >>
    ELSE The({ The({ IF x.value.t = "undefined" THEN before
                     ELSE (IF before = << >> THEN << >> ELSE before \o <<44, 10>> \o inner)
                          \o QuoteJSONString(x.key) \o <<58, 32>>
                          \o SerializeJSONPropertyGap(x.value, inner, g)
                   : before \in {SerializeJSONObjectGap(members, n - 1, inner, g)} })
             : x \in {members[n]}, inner \in {indent}, g \in {gap} })

\* JSON.stringify(value, null, space) with a number of spaces from 1 to 10
JSONstringifySpace(value, space) ==
    SerializeJSONPropertyGap(value, << >>, [i \in 1..space |-> 32] \o << >>)

\* TextEncoder.encode: the UTF-8 bytes of code unit i of s.  A surrogate
\* pair is one code point (its bytes are written at the high half); a lone
\* surrogate is written as U+FFFD.
EncodeUnit(s, i) ==
    The({ CASE u < 128 -> <<u>>
            [] u >= 128 /\ u < 2048 -> <<192 + (u \div 64), 128 + (u % 64)>>
            [] IsHighSurrogate(u) /\ PairedHigh(s, i) ->
                  The({ <<240 + (cp \div 262144), 128 + ((cp \div 4096) % 64),
                          128 + ((cp \div 64) % 64), 128 + (cp % 64)>>
                      : cp \in {65536 + (u - 55296) * 1024 + (s[i + 1] - 56320)} })
            [] IsLowSurrogate(u) /\ PairedLow(s, i) -> << >>
            [] (IsHighSurrogate(u) \/ IsLowSurrogate(u)) -> <<239, 191, 189>>
            [] OTHER -> <<224 + (u \div 4096), 128 + ((u \div 64) % 64), 128 + (u % 64)>>
        : u \in {s[i]} })

\* new TextEncoder().encode(s)
TextEncoderEncode(s) ==
    The({ The({ Concat(pieces, 1, Len(pieces))
              : pieces \in {[i \in 1..Len(x) |-> EncodeUnit(x, i)]} })
        : x \in {s} })

\* byte i of bytes is a continuation byte within lo..hi
Continues(bytes, i, lo, hi) == i <= Len(bytes) /\ bytes[i] >= lo /\ bytes[i] <= hi

\* the bounds of the byte that may follow lead byte b (UTF-8 decoder of the
\* Encoding standard)
SecondLow(b) == IF b = 224 THEN 160 ELSE IF b = 240 THEN 144 ELSE 128
SecondHigh(b) == IF b = 237 THEN 159 ELSE IF b = 244 THEN 143 ELSE 191

\* the code units of the code point cp
CodeUnits(cp) ==
    IF cp < 65536 THEN <<cp>>
    ELSE <<55296 + ((cp - 65536) \div 1024), 56320 + ((cp - 65536) % 1024)>>

\* one step of the decoder at byte i: the code units it emits and the
\* number of bytes it consumes; a malformed sequence becomes U+FFFD
DecodeAt(bytes, i) ==
    The({ CASE b < 128 -> [units |-> <<b>>, used |-> 1]
            [] b >= 194 /\ b <= 223 ->
                  IF Continues(bytes, i + 1, 128, 191)
                  THEN [units |-> <<(b - 192) * 64 + (bytes[i + 1] - 128)>>, used |-> 2]
                  ELSE [units |-> <<65533>>, used |-> 1]
            [] b >= 224 /\ b <= 239 ->
                  IF ~Continues(bytes, i + 1, SecondLow(b), SecondHigh(b))
                  THEN [units |-> <<65533>>, used |-> 1]
                  ELSE IF ~Continues(bytes, i + 2, 128, 191)
                  THEN [units |-> <<65533>>, used |-> 2]
                  ELSE [units |-> <<(b - 224) * 4096 + (bytes[i + 1] - 128) * 64
                                     + (bytes[i + 2] - 128)>>,
                        used |-> 3]
            [] b >= 240 /\ b <= 244 ->
                  IF ~Continues(bytes, i + 1, SecondLow(b), SecondHigh(b))
                  THEN [units |-> <<65533>>, used |-> 1]
                  ELSE IF ~Continues(bytes, i + 2, 128, 191)
                  THEN [units |-> <<65533>>, used |-> 2]
                  ELSE IF ~Continues(bytes, i + 3, 128, 191)
                  THEN [units |-> <<65533>>, used |-> 3]
                  ELSE [units |-> CodeUnits((b - 240) * 262144 + (bytes[i + 1] - 128) * 4096
                                            + (bytes[i + 2] - 128) * 64 + (bytes[i + 3] - 128)),
                        used |-> 4]
            [] OTHER -> [units |-> <<65533>>, used |-> 1]
        : b \in {bytes[i]} })

RECURSIVE DecodeWithin(_, _, _, _)
\* the decoder, standing at byte i, runs the steps that start within
\* lo..hi: the code units they emit and the byte it stands at afterwards
\* (the steps are grouped in halves to keep the evaluation shallow)
DecodeWithin(bytes, i, lo, hi) ==
    IF i > hi \/ lo > hi THEN [units |-> << >>, next |-> i]
    ELSE IF lo = hi
    THEN The({ [units |-> step.units, next |-> i + step.used]
             : step \in {DecodeAt(bytes, i)} })
    ELSE The({ The({ The({ [units |-> left.units \o right.units, next |-> right.next]
                         : right \in {DecodeWithin(bytes, left.next, mid + 1, hi)} })
                   : left \in {DecodeWithin(bytes, i, lo, mid)} })
             : mid \in {(lo + hi) \div 2} })

\* the code units of bytes[i..]
DecodeFrom(bytes, i) == DecodeWithin(bytes, i, i, Len(bytes)).units

\* new TextDecoder().decode(bytes): UTF-8, a leading byte order mark is
\* dropped
TextDecoderDecode(bytes) ==
    The({ IF Len(x) >= 3 /\ x[1] = 239 /\ x[2] = 187 /\ x[3] = 191
          THEN DecodeFrom(x, 4) ELSE DecodeFrom(x, 1)
        : x \in {bytes} })

\* JSON.parse.  The text is read without recursion over its length: the
\* quotes that delimit strings are those preceded by an even number of
\* backslashes, brackets and commas count where they stand outside strings,
\* and a value is read from the span of text it fills, a container from the
\* spans between the commas of its own depth.
Parsed(value) == [ok |-> TRUE, value |-> value]
NotParsed == [ok |-> FALSE, value |-> JSUndefined]

JSONWhiteSpace == {9, 10, 13, 32}

Min(S) == CHOOSE m \in S : \A e \in S : m <= e

\* the elements of a set of numbers in increasing order
Sorted(S) ==
    The({ [i \in 1..Cardinality(X) |->
              CHOOSE e \in X : Cardinality({f \in X : f < e}) = i - 1] \o << >>
        : X \in {S} })

\* how many backslashes stand immediately before position k
BackslashesBefore(text, k) ==
    CHOOSE r \in 0..(k - 1) :
        /\ \A j \in (k - r)..(k - 1) : text[j] = 92
        /\ (IF k - r > 1 THEN text[k - r - 1] # 92 ELSE TRUE)

\* the positions of the quotes that open or close a string, and of the
\* brackets, braces and commas outside strings
Lex(text) ==
    The({ The({ [quotes  |-> quotes,
                 openers |-> {k \in 1..Len(x) : x[k] \in {123, 91}} \cap outside,
                 closers |-> {k \in 1..Len(x) : x[k] \in {125, 93}} \cap outside,
                 commas  |-> {k \in 1..Len(x) : x[k] = 44} \cap outside]
              : outside \in {{k \in 1..Len(x) :
                                 /\ x[k] \in {123, 91, 125, 93, 44}
                                 /\ Cardinality({q \in quotes : q < k}) % 2 = 0}} })
        : x \in {text},
          quotes \in {{k \in 1..Len(text) :
                          text[k] = 34 /\ BackslashesBefore(text, k) % 2 = 0}} })

\* how many containers are open before position k
DepthBefore(lex, k) ==
    Cardinality({o \in lex.openers : o < k}) - Cardinality({c \in lex.closers : c < k})

\* the first and the last position within a..b that is not white space
\* (b + 1 and a - 1 if there is none)
FirstIn(text, a, b) ==
    CHOOSE j \in a..(b + 1) :
        /\ (IF j <= b THEN text[j] \notin JSONWhiteSpace ELSE TRUE)
        /\ \A k \in a..(j - 1) : text[k] \in JSONWhiteSpace

LastIn(text, a, b) ==
    CHOOSE j \in (a - 1)..b :
        /\ (IF j >= a THEN text[j] \notin JSONWhiteSpace ELSE TRUE)
        /\ \A k \in (j + 1)..b : text[k] \in JSONWhiteSpace

\* text has the code units of word at i
HasWord(text, i, word) ==
    /\ i + Len(word) - 1 <= Len(text)
    /\ \A k \in 1..Len(word) : text[i + k - 1] = word[k]

IsDigit(u) == u >= 48 /\ u <= 57
IsHex(u) == IsDigit(u) \/ (u >= 97 /\ u <= 102) \/ (u >= 65 /\ u <= 70)
HexValue(u) == IF IsDigit(u) THEN u - 48 ELSE IF u >= 97 THEN u - 87 ELSE u - 55

RECURSIVE DigitsValue(_, _, _)
\* the number written by the digits text[i..j]
DigitsValue(text, i, j) ==
    IF j < i THEN 0 ELSE DigitsValue(text, i, j - 1) * 10 + (text[j] - 48)

\* '-'? ( '0' | [1-9][0-9]* ) filling a..b; a number with a fraction or an
\* exponent is not read (no text of the scenario has one)
ParseNumber(text, a, b) ==
    The({ IF /\ first <= b
             /\ \A k \in first..b : IsDigit(text[k])
             /\ (text[first] = 48 => first = b)
          THEN Parsed(JSNumber((IF first > a THEN 0 - 1 ELSE 1) * DigitsValue(text, first, b)))
          ELSE NotParsed
        : first \in {IF text[a] = 45 THEN a + 1 ELSE a} })

\* position k starts an escape sequence
EscapeStart(text, k) == text[k] = 92 /\ BackslashesBefore(text, k) % 2 = 0

\* the escape sequence that starts at k is well formed within ..b
EscapeWellFormed(text, k, b) ==
    /\ k + 1 <= b
    /\ text[k + 1] \in {34, 92, 47, 98, 102, 110, 114, 116, 117}
    /\ text[k + 1] = 117 => k + 5 <= b /\ \A h \in 2..5 : IsHex(text[k + h])

\* the code unit the escape sequence at k stands for
EscapeValue(text, k) ==
    The({ CASE e = 98 -> 8
            [] e = 102 -> 12
            [] e = 110 -> 10
            [] e = 114 -> 13
            [] e = 116 -> 9
            [] e = 117 -> HexValue(text[k + 2]) * 4096 + HexValue(text[k + 3]) * 256
                          + HexValue(text[k + 4]) * 16 + HexValue(text[k + 5])
            [] OTHER -> e
        : e \in {text[k + 1]} })

\* position k belongs to an escape sequence that starts before it
InsideEscape(text, a, k) ==
    \/ BackslashesBefore(text, k) % 2 = 1
    \/ \E j \in (k - 5)..(k - 2) : j >= a /\ EscapeStart(text, j) /\ text[j + 1] = 117

\* the characters a..b of a string (between its quotes)
ParseCharacters(text, a, b) ==
    IF \A k \in a..b :
          IF EscapeStart(text, k) THEN EscapeWellFormed(text, k, b)
          ELSE InsideEscape(text, a, k) \/ text[k] >= 32
    THEN The({ Parsed(Concat(pieces, 1, Len(pieces)))
             : pieces \in {[i \in 1..(b - a + 1) |->
                              IF EscapeStart(text, a + i - 1)
                              THEN <<EscapeValue(text, a + i - 1)>>
                              ELSE IF InsideEscape(text, a, a + i - 1) THEN << >>
                              ELSE <<text[a + i - 1]>>]} })
    ELSE NotParsed

\* the spans between the separators seps of a container whose content is
\* a..b: span i is <<from, to>>
Spans(seps, a, b) ==
    The({ [i \in 1..(Len(s) + 1) |->
              <<IF i = 1 THEN a ELSE s[i - 1] + 1, IF i > Len(s) THEN b ELSE s[i] - 1>>]
        : s \in {Sorted(seps)} })

RECURSIVE ParseSpan(_, _, _, _)
RECURSIVE ParseMember(_, _, _, _)
\* the members or elements read from the spans of a container
ParseContainer(text, lex, first, last) ==
    The({ IF spans = <<>> THEN Parsed(<< >>)
          ELSE The({ IF \A i \in DOMAIN items : items[i].ok
                     THEN Parsed([i \in DOMAIN items |-> items[i].value] \o << >>)
                     ELSE NotParsed
                   : items \in {[i \in DOMAIN spans |->
                                   IF text[first] = 123
                                   THEN ParseMember(text, lex, spans[i][1], spans[i][2])
                                   ELSE ParseSpan(text, lex, spans[i][1], spans[i][2])]} })
        : spans \in {The({
             IF seps = {} /\ FirstIn(text, first + 1, last - 1) = last THEN <<>>
             ELSE Spans(seps, first + 1, last - 1)
             : seps \in {The({ {k \in lex.commas : k > first /\ k < last
                                                   /\ DepthBefore(lex, k) = d}
                             : d \in {DepthBefore(lex, first) + 1} })} })} })

\* the value that fills a..b
ParseSpan(text, lex, a, b) ==
    The({ IF first > last THEN NotParsed
          ELSE The({
             CASE u \in {123, 91} ->
                    IF /\ text[last] = (IF u = 123 THEN 125 ELSE 93)
                       /\ last > first
                       /\ first \in lex.openers
                       /\ last = Min({c \in lex.closers :
                                         c > first /\ DepthBefore(lex, c)
                                                        = DepthBefore(lex, first) + 1}
                                     \cup {Len(text) + 1})
                    THEN The({ IF ~r.ok THEN NotParsed
                               ELSE IF u = 123 THEN Parsed(JSObject(r.value))
                               ELSE Parsed(JSArray(r.value))
                             : r \in {ParseContainer(text, lex, first, last)} })
                    ELSE NotParsed
               [] u = 34 ->
                    IF /\ last > first
                       /\ first \in lex.quotes
                       /\ last = Min({q \in lex.quotes : q > first} \cup {Len(text) + 1})
                    THEN The({ IF r.ok THEN Parsed(JSString(r.value)) ELSE NotParsed
                             : r \in {ParseCharacters(text, first + 1, last - 1)} })
                    ELSE NotParsed
               [] u = 45 \/ IsDigit(u) -> ParseNumber(text, first, last)
               [] u = 116 -> IF last = first + 3 /\ HasWord(text, first, <<116, 114, 117, 101>>)
                             THEN Parsed(JSTrue) ELSE NotParsed
               [] u = 102 -> IF last = first + 4
                                /\ HasWord(text, first, <<102, 97, 108, 115, 101>>)
                             THEN Parsed(JSFalse) ELSE NotParsed
               [] u = 110 -> IF last = first + 3 /\ HasWord(text, first, <<110, 117, 108, 108>>)
                             THEN Parsed(JSNull) ELSE NotParsed
               [] OTHER -> NotParsed
             : u \in {text[first]} })
        : first \in {FirstIn(text, a, b)}, last \in {LastIn(text, a, b)} })

\* the member  "key" : value  that fills a..b
ParseMember(text, lex, a, b) ==
    The({ IF first > b \/ first \notin lex.quotes THEN NotParsed
          ELSE The({
             IF close > b THEN NotParsed
             ELSE The({
                IF colon > b \/ ~key.ok THEN NotParsed
                ELSE IF text[colon] # 58 THEN NotParsed
                ELSE The({ IF r.ok THEN Parsed(Member(key.value, r.value)) ELSE NotParsed
                         : r \in {ParseSpan(text, lex, colon + 1, b)} })
                : colon \in {FirstIn(text, close + 1, b)},
                  key \in {ParseCharacters(text, first + 1, close - 1)} })
             : close \in {Min({q \in lex.quotes : q > first} \cup {Len(text) + 1})} })
        : first \in {FirstIn(text, a, b)} })

\* JSON.parse(text): the value, or a SyntaxError
JSONparse(text) ==
    The({ The({ The({ IF r.ok THEN Ok(r.value) ELSE Err("SyntaxError")
                    : r \in {ParseSpan(x, lex, 1, Len(x))} })
              : lex \in {Lex(x)} })
        : x \in {text} })

(***************************************************************************)
(* a2a/types.ts: Part and Message                                          *)
(***************************************************************************)
\* the strings of the bridge, as code units
sMethod == <<109, 101, 116, 104, 111, 100>>  \* 'method'
sMessage == <<109, 101, 115, 115, 97, 103, 101>>  \* 'message'
sTask == <<116, 97, 115, 107>>  \* 'task'
sMessageSend == <<109, 101, 115, 115, 97, 103, 101, 47, 115, 101, 110, 100>>  \* 'message/send'
sMessageStream == <<109, 101, 115, 115, 97, 103, 101, 47, 115, 116, 114, 101, 97, 109>>  \* 'message/stream'
sUnknown == <<117, 110, 107, 110, 111, 119, 110>>  \* 'unknown'
sRole == <<114, 111, 108, 101>>  \* 'role'
sParts == <<112, 97, 114, 116, 115>>  \* 'parts'
sContextId == <<99, 111, 110, 116, 101, 120, 116, 73, 100>>  \* 'contextId'
sMessageId == <<109, 101, 115, 115, 97, 103, 101, 73, 100>>  \* 'messageId'
sTaskId == <<116, 97, 115, 107, 73, 100>>  \* 'taskId'
sMetadata == <<109, 101, 116, 97, 100, 97, 116, 97>>  \* 'metadata'
sKind == <<107, 105, 110, 100>>  \* 'kind'
sText == <<116, 101, 120, 116>>  \* 'text'
sFile == <<102, 105, 108, 101>>  \* 'file'
sData == <<100, 97, 116, 97>>  \* 'data'
sMimeType == <<109, 105, 109, 101, 84, 121, 112, 101>>  \* 'mimeType'
sUri == <<117, 114, 105>>  \* 'uri'
sUser == <<117, 115, 101, 114>>  \* 'user'
sAgent == <<97, 103, 101, 110, 116>>  \* 'agent'
sTasksSend == <<116, 97, 115, 107, 115, 47, 115, 101, 110, 100>>  \* 'tasks/send'
sError == <<101, 114, 114, 111, 114>>
sCode == <<99, 111, 100, 101>>

\* Part's constructor: each slot is a JavaScript value
NewPart(kind, text, file, data) == [kind |-> kind, text |-> text, file |-> file, data |-> data]

\* Part.text
PartText(content) == NewPart(JSString(sText), JSString(content), JSUndefined, JSUndefined)

\* Part.fileInline
PartFileInline(mimeType, base64Data) ==
    NewPart(JSString(sFile), JSUndefined,
            JSObject(<<Member(sMimeType, JSString(mimeType)),
                       Member(sData, JSString(base64Data))>>),
            JSUndefined)

\* Part.fileUri
PartFileUri(mimeType, uri) ==
    NewPart(JSString(sFile), JSUndefined,
            JSObject(<<Member(sMimeType, JSString(mimeType)), Member(sUri, JSString(uri))>>),
            JSUndefined)

\* Part.data
PartData(content) == NewPart(JSString(sData), JSUndefined, JSUndefined, content)

\* a member if the value is not undefined
MemberIfDefined(key, value) ==
    IF value # JSUndefined THEN <<Member(key, value)>> ELSE << >>

\* a member if the value is truthy: ...(value && { key: value })
MemberIfTruthy(key, value) == IF Truthy(value) THEN <<Member(key, value)>> ELSE << >>

\* a plausible slip: a slot is written when it is truthy, not when it is
\* defined
partToJSONIfTruthy(part) ==
    The({ JSObject(<<Member(sKind, p.kind)>> \o MemberIfTruthy(sText, p.text)
                   \o MemberIfTruthy(sFile, p.file) \o MemberIfTruthy(sData, p.data))
        : p \in {part} })

\* Part.toJSON
partToJSON(part) ==
    The({ JSObject(<<Member(sKind, p.kind)>> \o MemberIfDefined(sText, p.text)
                   \o MemberIfDefined(sFile, p.file) \o MemberIfDefined(sData, p.data))
        : p \in {part} })

\* Part.fromJSON
partFromJSON(json) ==
    The({ NewPart(GetProperty(j, sKind), GetProperty(j, sText), GetProperty(j, sFile),
                  GetProperty(j, sData))
        : j \in {json} })

\* options.k ?? generated
OrGenerated(value, generated) ==
    IF value \in {JSUndefined, JSNull} THEN JSString(generated) ELSE value

\* new Message(role, parts, options) of the A2A model; the two generated
\* identifiers are what uuidv4() returns in this call
NewA2AMessage(role, parts, options, genContextId, genMessageId) ==
    [role      |-> role,
     parts     |-> parts,
     contextId |-> OrGenerated(options.contextId, genContextId),
     messageId |-> OrGenerated(options.messageId, genMessageId),
     taskId    |-> options.taskId,
     metadata  |-> options.metadata]

\* Message.toJSON
messageToJSON(message) ==
    The({ JSObject(<<Member(sRole, m.role),
                     Member(sParts, JSArray([i \in DOMAIN m.parts |-> partToJSON(m.parts[i])]
                                            \o << >>)),
                     Member(sContextId, m.contextId),
                     Member(sMessageId, m.messageId)>>
                   \o MemberIfTruthy(sTaskId, m.taskId)
                   \o MemberIfTruthy(sMetadata, m.metadata))
        : m \in {message} })

\* Message.getOptions
getOptions(message) ==
    [contextId |-> message.contextId, messageId |-> message.messageId,
     taskId |-> message.taskId, metadata |-> message.metadata]

\* Message.withContext
withContext(message, contextId, genContextId, genMessageId) ==
    NewA2AMessage(message.role, message.parts,
                  [getOptions(message) EXCEPT !.contextId = contextId],
                  genContextId, genMessageId)

\* Message.withTask
withTask(message, taskId, genContextId, genMessageId) ==
    [NewA2AMessage(message.role, message.parts, getOptions(message),
                   genContextId, genMessageId) EXCEPT !.taskId = taskId]

\* a plausible slip: the metadata is not read back
messageFromJSONWithoutMetadata(json, genContextId, genMessageId) ==
    The({ IF parts.t # "array" \/ \E i \in DOMAIN parts.items :
                                     parts.items[i].t \in {"null", "undefined"}
          THEN Err("TypeError")
          ELSE Ok(NewA2AMessage(GetProperty(j, sRole),
                                [i \in DOMAIN parts.items |-> partFromJSON(parts.items[i])]
                                    \o << >>,
                                [contextId |-> GetProperty(j, sContextId),
                                 messageId |-> GetProperty(j, sMessageId),
                                 taskId    |-> GetProperty(j, sTaskId),
                                 metadata  |-> JSUndefined],
                                genContextId, genMessageId))
        : j \in {json}, parts \in {GetProperty(json, sParts)} })

\* Message.fromJSON: the message, or the TypeError of reading a property of
\* null or undefined
messageFromJSON(json, genContextId, genMessageId) ==
    The({ IF parts.t # "array" \/ \E i \in DOMAIN parts.items :
                                     parts.items[i].t \in {"null", "undefined"}
          THEN Err("TypeError")
          ELSE Ok(NewA2AMessage(GetProperty(j, sRole),
                                [i \in DOMAIN parts.items |-> partFromJSON(parts.items[i])]
                                    \o << >>,
                                [contextId |-> GetProperty(j, sContextId),
                                 messageId |-> GetProperty(j, sMessageId),
                                 taskId    |-> GetProperty(j, sTaskId),
                                 metadata  |-> GetProperty(j, sMetadata)],
                                genContextId, genMessageId))
        : j \in {json}, parts \in {GetProperty(json, sParts)} })

(***************************************************************************)
(* message.ts, a2a/convert.ts: the bridge                                  *)
(***************************************************************************)
\* Message.payloadAsString
payloadAsString(mxpMessage) == TextDecoderDecode(mxpMessage.payload)

\* the frame with its payload: JSON.stringify of the envelope, as UTF-8
Envelope(messageType, members, genMessageId, genTraceId) ==
    NewMessage(messageType, TextEncoderEncode(JSONstringify(JSObject(members))), << >>,
               genMessageId, genTraceId)

toMxp(message, genMessageId, genTraceId) ==
    Envelope(MessageTypeCall,
             <<Member(sMethod, JSString(sMessageSend)),
               Member(sMessage, messageToJSON(message))>>,
             genMessageId, genTraceId)

\* a plausible slip: the chunk is built like the opener, without options
toMxpStreamChunkUncorrelated(content, correlationId, genMessageId, genTraceId) ==
    NewMessage(MessageTypeStreamChunk, TextEncoderEncode(content), << >>,
               genMessageId, genTraceId)

toMxpStreamChunk(content, correlationId, genMessageId, genTraceId) ==
    NewMessage(MessageTypeStreamChunk, TextEncoderEncode(content),
               [correlationId |-> correlationId], genMessageId, genTraceId)

toMxpStreamClose(correlationId, genMessageId, genTraceId) ==
    streamClose(correlationId, << >>, genMessageId, genTraceId)

toMxpStreamOpen(message, genMessageId, genTraceId) ==
    Envelope(MessageTypeStreamOpen,
             <<Member(sMethod, JSString(sMessageStream)),
               Member(sMessage, messageToJSON(message))>>,
             genMessageId, genTraceId)

\* errorToMxp(code, message, correlationId); given holds the optional
\* argument if the caller passed it
errorToMxp(code, message, given, genMessageId, genTraceId) ==
    NewMessage(MessageTypeError,
               TextEncoderEncode(JSONstringify(JSObject(
                   <<Member(sError, JSObject(<<Member(sCode, JSNumber(code)),
                                               Member(sMessage, JSString(message))>>))>>))),
               [correlationId |-> Opt(given, "correlationId", << >>)],
               genMessageId, genTraceId)

inferMethod(type) ==
    CASE type = MessageTypeCall -> sMessageSend
      [] type = MessageTypeResponse -> sMessageSend
      [] type = MessageTypeStreamOpen -> sMessageStream
      [] type = MessageTypeStreamChunk -> sMessageStream
      [] type = MessageTypeStreamClose -> sMessageStream
      [] OTHER -> sUnknown

\* fromMxp after JSON.parse has returned payload.  No payload of the
\* scenario has a task member, so Task.fromJSON is not modelled.
fromPayload(messageType, payload, genContextId, genMessageId) ==
    IF payload.t \in {"null", "undefined"} THEN Err("TypeError")
    ELSE The({
       IF ~Truthy(json)
       THEN Ok([method |-> method, message |-> JSUndefined, task |-> JSUndefined,
                payload |-> payload])
       ELSE The({ IF message.status = "error" THEN message
                  ELSE Ok([method |-> method, message |-> message.value,
                           task |-> JSUndefined, payload |-> payload])
                : message \in {messageFromJSON(json, genContextId, genMessageId)} })
       : method \in {The({ IF Truthy(named) THEN named ELSE JSString(inferMethod(messageType))
                         : named \in {GetProperty(payload, sMethod)} })},
         json \in {GetProperty(payload, sMessage)} })

\* fromMxp: the ConversionResult, or the error thrown
fromMxp(mxpMessage, genContextId, genMessageId) ==
    The({ IF parsed.status = "error" THEN parsed
          ELSE fromPayload(mxpMessage.messageType, parsed.value, genContextId, genMessageId)
        : parsed \in {The({ JSONparse(text) : text \in {payloadAsString(mxpMessage)} })} })

(***************************************************************************)
(* a2a/task.ts: Task and TaskStatus                                        *)
(***************************************************************************)
TaskState == {"submitted", "working", "input-required", "completed", "failed", "canceled"}

sId == <<105, 100>>  \* 'id'
sStatus == <<115, 116, 97, 116, 117, 115>>  \* 'status'
sState == <<115, 116, 97, 116, 101>>  \* 'state'
sTimestamp == <<116, 105, 109, 101, 115, 116, 97, 109, 112>>  \* 'timestamp'
sArtifacts == <<97, 114, 116, 105, 102, 97, 99, 116, 115>>  \* 'artifacts'
sHistory == <<104, 105, 115, 116, 111, 114, 121>>  \* 'history'
sArtifactId == <<97, 114, 116, 105, 102, 97, 99, 116, 73, 100>>  \* 'artifactId'
sName == <<110, 97, 109, 101>>  \* 'name'
sDescription == <<100, 101, 115, 99, 114, 105, 112, 116, 105, 111, 110>>  \* 'description'

\* the string an enum member of TaskState is
TaskStateValue(taskState) ==
    JSString(CASE taskState = "submitted" -> <<115, 117, 98, 109, 105, 116, 116, 101, 100>>
               [] taskState = "working" -> <<119, 111, 114, 107, 105, 110, 103>>
               [] taskState = "input-required" -> <<105, 110, 112, 117, 116, 45, 114, 101, 113, 117, 105, 114, 101, 100>>
               [] taskState = "completed" -> <<99, 111, 109, 112, 108, 101, 116, 101, 100>>
               [] taskState = "failed" -> <<102, 97, 105, 108, 101, 100>>
               [] taskState = "canceled" -> <<99, 97, 110, 99, 101, 108, 101, 100>>)

\* value as TaskState, for a value that is the string of a member
TaskStateOf(value) == CHOOSE taskState \in TaskState : TaskStateValue(taskState) = value

\* the decimal digits of n, padded with zeros to width
Pad(n, width) ==
    The({ [i \in 1..(width - Len(d)) |-> 48] \o d : d \in {Digits(n)} })

\* Date.prototype.toISOString of a time value within 1 January 1970
toISOString(ms) ==
    <<49, 57, 55, 48, 45, 48, 49, 45, 48, 49, 84>> \o Pad(ms \div 3600000, 2) \o <<58>>
        \o Pad((ms \div 60000) % 60, 2) \o <<58>> \o Pad((ms \div 1000) % 60, 2)
        \o <<46>> \o Pad(ms % 1000, 3) \o <<90>>

\* new TaskStatus(state, message); message is undefined if there is none,
\* now is the time value new Date() has
TaskStatus(taskState, message, now) ==
    [state |-> taskState, message |-> message, timestamp |-> now]

\* TaskStatus.isTerminal
isTerminal(status) == status.state \in {"completed", "failed", "canceled"}

\* TaskStatus.toJSON
statusToJSON(status) ==
    The({ JSObject(<<Member(sState, TaskStateValue(st.state))>>
                   \o (IF st.message # JSUndefined
                       THEN <<Member(sMessage, messageToJSON(st.message))>> ELSE << >>)
                   \o <<Member(sTimestamp, JSString(toISOString(st.timestamp)))>>)
        : st \in {status} })

\* new Artifact(name, parts, options); the generated identifier is what
\* uuidv4() returns in this call
NewArtifact(name, parts, options, genArtifactId) ==
    [artifactId  |-> JSString(genArtifactId),
     name        |-> name,
     parts       |-> parts,
     description |-> options.description,
     metadata    |-> options.metadata]

\* Artifact.toJSON
artifactToJSON(artifact) ==
    The({ JSObject(<<Member(sArtifactId, a.artifactId),
                     Member(sName, a.name),
                     Member(sParts, JSArray([i \in DOMAIN a.parts |-> partToJSON(a.parts[i])]
                                            \o << >>))>>
                   \o MemberIfTruthy(sDescription, a.description)
                   \o MemberIfTruthy(sMetadata, a.metadata))
        : a \in {artifact} })

\* new Task(options); the generated identifiers are what uuidv4() returns
\* in this call
NewTask(options, genId, genContextId, now) ==
    [id        |-> JSString(genId),
     contextId |-> OrGenerated(options.contextId, genContextId),
     status    |-> TaskStatus("submitted", JSUndefined, now),
     artifacts |-> << >>,
     history   |-> << >>]

\* Task.setStatus: the task after the call
setStatus(t, taskState, message, now) ==
    [t EXCEPT !.status = IF message # JSUndefined
                         THEN TaskStatus(taskState, message, now)
                         ELSE TaskStatus(taskState, JSUndefined, now)]

\* Task.addArtifact
addArtifact(t, artifact) == [t EXCEPT !.artifacts = Append(@, artifact)]

\* Task.addMessage
addMessage(t, message) == [t EXCEPT !.history = Append(@, message)]

\* Task.toJSON
taskToJSON(t) ==
    The({ JSObject(<<Member(sId, k.id),
                     Member(sContextId, k.contextId),
                     Member(sStatus, statusToJSON(k.status)),
                     Member(sArtifacts,
                            JSArray([i \in DOMAIN k.artifacts |-> artifactToJSON(k.artifacts[i])]
                                    \o << >>)),
                     Member(sHistory,
                            JSArray([i \in DOMAIN k.history |-> messageToJSON(k.history[i])]
                                    \o << >>))>>)
        : k \in {t} })

\* Task.fromJSON: the task, or the TypeError of reading the state of a
\* status that is null or undefined.  The artifacts are looked at and not
\* parsed; the history and the message of the status are not looked at.
taskFromJSON(json, genId, genContextId, now) ==
    The({ IF statusJson.t \in {"null", "undefined"}
          THEN Err("TypeError")
          ELSE Ok([NewTask([contextId |-> GetProperty(j, sContextId)], genId, genContextId, now)
                      EXCEPT !.id = GetProperty(j, sId),
                             !.status = TaskStatus(TaskStateOf(GetProperty(statusJson, sState)),
                                                   JSUndefined, now)])
        : j \in {json}, statusJson \in {GetProperty(json, sStatus)} })

\* taskToMxp
taskToMxp(t, genMessageId, genTraceId) ==
    Envelope(MessageTypeResponse,
             <<Member(sMethod, JSString(sTasksSend)), Member(sTask, taskToJSON(t))>>,
             genMessageId, genTraceId)

\* what uuidv4() returns to the application and to the receiving side
UuidBuilt == <<117, 49>>
UuidReceived == <<117, 50>>

\* what new Date() is for the application (12:34:56.789) and, later, for
\* the receiving side (23:59:59.999)
TimeBuilt == 45296789
TimeReceived == 86399999

\* a Task after its constructor
TaskNew ==
    /\ task = NewTask([contextId |-> JSUndefined], UuidBuilt, UuidBuilt, TimeBuilt)
    /\ taskStates = <<"submitted">>
    /\ taskJson = NotCalled
    /\ taskParsed = NotCalled

NoFrame == [origin |-> "none"]

\* a bridge that has been given nothing yet
BridgeIdle ==
    /\ bridgeMessage = JSUndefined
    /\ bridgeFrame = NoFrame
    /\ bridgeWire = << >>
    /\ conversion = NotCalled

\* no frame has been built by a factory helper
FramesIdle ==
    /\ causeFrame = NoFrame
    /\ derivedFrame = NoFrame
    /\ framesWire = [cause |-> << >>, derived |-> << >>]
    /\ framesReceived = [cause |-> NotCalled, derived |-> NotCalled]

\* no A2A Message has been built for its JSON form
JsonIdle ==
    /\ a2aMessage = JSUndefined
    /\ messageJson = NotCalled
    /\ messageParsed = NotCalled

(***************************************************************************)
(* transport/signaling.ts: InMemorySignalingHub                            *)
(***************************************************************************)
\* the local ids of the providers created from the hub
HubIds == {"peer-1", "peer-2", "peer-3"}

\* hub.peers.get(id) of an id without entry
Unregistered == [owner |-> "none", serial |-> 0]

\* new InMemorySignalingHub()
NewHub == [peers |-> [id \in HubIds |-> Unregistered], timers |-> << >>, called |-> << >>]

\* onMessage(callback) of the provider createProvider(localId) returned
hubOnMessage(hub, localId, callback) == [hub EXCEPT !.peers[localId] = callback]

\* a plausible slip: the handler is looked up under the sender's id
hubSendToSender(hub, message) ==
    The({ IF registered # Unregistered
          THEN [hub EXCEPT !.timers = Append(@, [handler |-> registered, message |-> message])]
          ELSE hub
          : registered \in {hub.peers[message.from]} })

\* a plausible slip: the handler is called in send itself
hubSendInline(hub, message) ==
    The({ IF registered # Unregistered
          THEN [hub EXCEPT !.called = Append(@, [handler |-> registered, message |-> message])]
          ELSE hub
          : registered \in {hub.peers[message.to]} })

\* send(message) of a provider: the hub after the call, with the timer set
hubSend(hub, message) ==
    The({ IF registered # Unregistered
          THEN [hub EXCEPT !.timers = Append(@, [handler |-> registered, message |-> message])]
          ELSE hub
          : registered \in {hub.peers[message.to]} })

\* hub.clear()
hubClear(hub) == [hub EXCEPT !.peers = [id \in HubIds |-> Unregistered]]

\* a hub without providers
HubIdle ==
    /\ hubPeers = NewHub.peers
    /\ hubTimers = NewHub.timers
    /\ hubSent = << >>
    /\ hubObserved = << >>

(***************************************************************************)
(* transport/signaling.ts: WebSocketSignaling                              *)
(***************************************************************************)
\* private reconnectDelay = 1000
reconnectDelay == 1000

\* new WebSocketSignaling(url, localId): ws is 0 for null; sockets holds the
\* readyState of every WebSocket the provider has constructed, timers the
\* delay of every timer it has set, and log what it has done, in order
NewWebSocketSignaling ==
    [ws |-> 0, reconnectAttempts |-> 0, maxReconnectAttempts |-> 5,
     sockets |-> << >>, timers |-> << >>, log |-> << >>, closed |-> FALSE]

\* connect(), called by `by`: a new WebSocket, which is connecting
relayConnect(relay, by) ==
    [relay EXCEPT !.sockets = Append(@, [readyState |-> "connecting", by |-> by,
                                         afterClose |-> relay.closed]),
                  !.ws = Len(relay.sockets) + 1]

\* ws.onopen
relayOnOpen(relay) ==
    [relay EXCEPT !.reconnectAttempts = 0, !.log = Append(@, [did |-> "open", delay |-> 0])]

\* a plausible slip: one attempt too many, `<=` for `<`
attemptReconnectInclusive(relay) ==
    IF relay.reconnectAttempts <= relay.maxReconnectAttempts
    THEN The({ [relay EXCEPT !.reconnectAttempts = attempts,
                             !.timers = Append(@, [delay |-> reconnectDelay * attempts,
                                                   pending |-> TRUE,
                                                   afterClose |-> relay.closed]),
                             !.log = Append(@, [did |-> "setTimeout",
                                                delay |-> reconnectDelay * attempts])]
               : attempts \in {relay.reconnectAttempts + 1} })
    ELSE relay

\* attemptReconnect(), which ws.onclose calls
attemptReconnect(relay) ==
    IF relay.reconnectAttempts < relay.maxReconnectAttempts
    THEN The({ [relay EXCEPT !.reconnectAttempts = attempts,
                             !.timers = Append(@, [delay |-> reconnectDelay * attempts,
                                                   pending |-> TRUE,
                                                   afterClose |-> relay.closed]),
                             !.log = Append(@, [did |-> "setTimeout",
                                                delay |-> reconnectDelay * attempts])]
               : attempts \in {relay.reconnectAttempts + 1} })
    ELSE relay

\* WebSocket.close(): a socket that is not closed starts closing
socketClose(socketState) == IF socketState = "closed" THEN "closed" ELSE "closing"

\* close()
relayClose(relay) ==
    [relay EXCEPT !.maxReconnectAttempts = 0,
                  !.sockets = IF relay.ws = 0 THEN @
                              ELSE [@ EXCEPT ![relay.ws].readyState = socketClose(@)],
                  !.ws = 0,
                  !.closed = TRUE]

\* a provider that has not connected
RelayIdle == webSocketSignaling = NewWebSocketSignaling

(***************************************************************************)
(* a2a/agent-card.ts: AgentSkill, AgentCapabilities and AgentCard          *)
(***************************************************************************)
sProtocolVersion == <<112, 114, 111, 116, 111, 99, 111, 108, 86, 101, 114, 115, 105, 111, 110>>  \* 'protocolVersion'
sUrl == <<117, 114, 108>>  \* 'url'
sProvider == <<112, 114, 111, 118, 105, 100, 101, 114>>  \* 'provider'
sVersion == <<118, 101, 114, 115, 105, 111, 110>>  \* 'version'
sCapabilities == <<99, 97, 112, 97, 98, 105, 108, 105, 116, 105, 101, 115>>  \* 'capabilities'
sSkills == <<115, 107, 105, 108, 108, 115>>  \* 'skills'
sDefaultInputModes == <<100, 101, 102, 97, 117, 108, 116, 73, 110, 112, 117, 116, 77, 111, 100, 101, 115>>  \* 'defaultInputModes'
sDefaultOutputModes == <<100, 101, 102, 97, 117, 108, 116, 79, 117, 116, 112, 117, 116, 77, 111, 100, 101, 115>>  \* 'defaultOutputModes'
sAdditionalInterfaces == <<97, 100, 100, 105, 116, 105, 111, 110, 97, 108, 73, 110, 116, 101, 114, 102, 97, 99, 101, 115>>  \* 'additionalInterfaces'
sSecurity == <<115, 101, 99, 117, 114, 105, 116, 121>>  \* 'security'
sStreaming == <<115, 116, 114, 101, 97, 109, 105, 110, 103>>  \* 'streaming'
sPushNotifications == <<112, 117, 115, 104, 78, 111, 116, 105, 102, 105, 99, 97, 116, 105, 111, 110, 115>>  \* 'pushNotifications'
sStateTransitionHistory == <<115, 116, 97, 116, 101, 84, 114, 97, 110, 115, 105, 116, 105, 111, 110, 72, 105, 115, 116, 111, 114, 121>>  \* 'stateTransitionHistory'
sMxpTransport == <<109, 120, 112, 84, 114, 97, 110, 115, 112, 111, 114, 116>>  \* 'mxpTransport'
sMxpEndpoint == <<109, 120, 112, 69, 110, 100, 112, 111, 105, 110, 116>>  \* 'mxpEndpoint'
sTags == <<116, 97, 103, 115>>  \* 'tags'
sExamples == <<101, 120, 97, 109, 112, 108, 101, 115>>  \* 'examples'
sInputModes == <<105, 110, 112, 117, 116, 77, 111, 100, 101, 115>>  \* 'inputModes'
sOutputModes == <<111, 117, 116, 112, 117, 116, 77, 111, 100, 101, 115>>  \* 'outputModes'
sOrganization == <<111, 114, 103, 97, 110, 105, 122, 97, 116, 105, 111, 110>>  \* 'organization'
sTransport == <<116, 114, 97, 110, 115, 112, 111, 114, 116>>  \* 'transport'
sMXP == <<77, 88, 80>>  \* 'MXP'
sScheme == <<115, 99, 104, 101, 109, 101>>  \* 'scheme'
sType == <<116, 121, 112, 101>>  \* 'type'
sScopes == <<115, 99, 111, 112, 101, 115>>  \* 'scopes'
sTextPlain == <<116, 101, 120, 116, 47, 112, 108, 97, 105, 110>>  \* 'text/plain'
sApplicationJson == <<97, 112, 112, 108, 105, 99, 97, 116, 105, 111, 110, 47, 106, 115, 111, 110>>  \* 'application/json'
sProtocol030 == <<48, 46, 51, 46, 48>>  \* '0.3.0'

\* left ?? right
OrDefault(value, dflt) == IF value \in {JSUndefined, JSNull} THEN dflt ELSE value

\* AgentSkill constructor; options are the SkillOptions given
NewAgentSkill(id, name, description, options) ==
    [id          |-> id,
     name        |-> name,
     description |-> description,
     tags        |-> OrDefault(Opt(options, "tags", JSUndefined), JSArray(<< >>)),
     examples    |-> OrDefault(Opt(options, "examples", JSUndefined), JSArray(<< >>)),
     inputModes  |-> OrDefault(Opt(options, "inputModes", JSUndefined),
                               JSArray(<<JSString(sTextPlain)>>)),
     outputModes |-> OrDefault(Opt(options, "outputModes", JSUndefined),
                               JSArray(<<JSString(sTextPlain)>>))]

\* AgentSkill.withTags
withTags(skill, tags) == [skill EXCEPT !.tags = JSArray(@.items \o tags.items)]

\* AgentSkill.withExamples
withExamples(skill, examples) == [skill EXCEPT !.examples = JSArray(@.items \o examples.items)]

\* AgentSkill.toJSON
skillToJSON(skill) ==
    The({ JSObject(<<Member(sId, k.id),
                     Member(sName, k.name),
                     Member(sDescription, k.description),
                     Member(sTags, k.tags),
                     Member(sExamples, k.examples),
                     Member(sInputModes, k.inputModes),
                     Member(sOutputModes, k.outputModes)>>)
        : k \in {skill} })

\* new AgentCapabilities()
NewAgentCapabilities ==
    [streaming |-> FALSE, pushNotifications |-> FALSE, stateTransitionHistory |-> FALSE,
     mxpTransport |-> FALSE, mxpEndpoint |-> JSUndefined]

JSBoolean(b) == IF b THEN JSTrue ELSE JSFalse

\* AgentCapabilities.toJSON
capabilitiesToJSON(capabilities) ==
    The({ JSObject(<<Member(sStreaming, JSBoolean(k.streaming)),
                     Member(sPushNotifications, JSBoolean(k.pushNotifications)),
                     Member(sStateTransitionHistory, JSBoolean(k.stateTransitionHistory)),
                     Member(sMxpTransport, JSBoolean(k.mxpTransport))>>
                   \o MemberIfTruthy(sMxpEndpoint, k.mxpEndpoint))
        : k \in {capabilities} })

\* AgentCard constructor; options are the AgentCardOptions given
NewAgentCard(name, description, url, options) ==
    [protocolVersion      |-> JSString(sProtocol030),
     name                 |-> name,
     description          |-> description,
     url                  |-> url,
     provider             |-> Opt(options, "provider", JSUndefined),
     version              |-> Opt(options, "version", JSUndefined),
     capabilities         |-> NewAgentCapabilities,
     skills               |-> << >>,
     defaultInputModes    |-> JSArray(<<JSString(sTextPlain), JSString(sApplicationJson)>>),
     defaultOutputModes   |-> JSArray(<<JSString(sTextPlain), JSString(sApplicationJson)>>),
     additionalInterfaces |-> JSArray(<< >>),
     security             |-> JSArray(<< >>)]

\* AgentCard.withMxp (static): capabilities.withMxp(mxpUrl) and the MXP
\* interface
cardWithMxp(name, description, httpUrl, mxpUrl, options) ==
    [NewAgentCard(name, description, httpUrl, options)
        EXCEPT !.capabilities.mxpTransport = TRUE,
               !.capabilities.mxpEndpoint = mxpUrl,
               !.additionalInterfaces =
                   JSArray(Append(@.items, JSObject(<<Member(sUrl, mxpUrl),
                                                      Member(sTransport, JSString(sMXP))>>)))]

\* AgentCard.withProvider(organization, url)
withProvider(c, organization, url) ==
    [c EXCEPT !.provider = JSObject(<<Member(sOrganization, organization), Member(sUrl, url)>>)]

\* AgentCard.withStreaming
withStreaming(c) == [c EXCEPT !.capabilities.streaming = TRUE]

\* AgentCard.withPushNotifications
withPushNotifications(c) == [c EXCEPT !.capabilities.pushNotifications = TRUE]

\* AgentCard.withSkill
withSkill(c, skill) == [c EXCEPT !.skills = Append(@, skill)]

\* AgentCard.withSecurity(name, scheme, scopes)
withSecurity(c, name, scheme, scopes) ==
    [c EXCEPT !.security = JSArray(Append(@.items, JSObject(<<Member(sName, name),
                                                              Member(sScheme, scheme),
                                                              Member(sScopes, scopes)>>)))]

\* AgentCard.hasMxp
hasMxp(c) == c.capabilities.mxpTransport

\* AgentCard.toJSON: the text JSON.stringify(..., null, 2) returns
cardToJSON(c) ==
    The({ JSONstringifySpace(
              JSObject(<<Member(sProtocolVersion, k.protocolVersion),
                         Member(sName, k.name),
                         Member(sDescription, k.description),
                         Member(sUrl, k.url)>>
                       \o MemberIfTruthy(sProvider, k.provider)
                       \o MemberIfTruthy(sVersion, k.version)
                       \o <<Member(sCapabilities, capabilitiesToJSON(k.capabilities)),
                            Member(sSkills,
                                   JSArray([i \in DOMAIN k.skills |-> skillToJSON(k.skills[i])]
                                           \o << >>)),
                            Member(sDefaultInputModes, k.defaultInputModes),
                            Member(sDefaultOutputModes, k.defaultOutputModes)>>
                       \o (IF Len(k.additionalInterfaces.items) > 0
                           THEN <<Member(sAdditionalInterfaces, k.additionalInterfaces)>>
                           ELSE << >>)
                       \o (IF Len(k.security.items) > 0
                           THEN <<Member(sSecurity, k.security)>>
                           ELSE << >>)),
              2)
        : k \in {c} })

\* the skills fromJSON builds from data.skills
skillsFromJSON(skills) ==
    [i \in DOMAIN skills.items |->
        The({ NewAgentSkill(GetProperty(x, sId), GetProperty(x, sName),
                            GetProperty(x, sDescription),
                            [tags |-> GetProperty(x, sTags),
                             examples |-> GetProperty(x, sExamples)])
            : x \in {skills.items[i]} })] \o << >>

\* the card fromJSON builds from the parsed data: the capabilities that are
\* set, the skills, the additional interfaces
cardFromData(data) ==
    The({ The({ [NewAgentCard(GetProperty(d, sName), GetProperty(d, sDescription),
                              GetProperty(d, sUrl),
                              [provider |-> GetProperty(d, sProvider),
                               version |-> GetProperty(d, sVersion)])
                   EXCEPT !.capabilities.streaming = Truthy(GetProperty(capabilities, sStreaming)),
                          !.capabilities.pushNotifications =
                              Truthy(GetProperty(capabilities, sPushNotifications)),
                          !.capabilities.mxpTransport =
                              Truthy(GetProperty(capabilities, sMxpTransport)),
                          !.capabilities.mxpEndpoint =
                              IF Truthy(GetProperty(capabilities, sMxpTransport))
                              THEN GetProperty(capabilities, sMxpEndpoint)
                              ELSE JSUndefined,
                          !.skills = IF Truthy(skills) THEN skillsFromJSON(skills) ELSE << >>,
                          !.additionalInterfaces = IF Truthy(interfaces) THEN interfaces ELSE @]
              : capabilities \in {GetProperty(d, sCapabilities)},
                skills \in {GetProperty(d, sSkills)},
                interfaces \in {GetProperty(d, sAdditionalInterfaces)} })
        : d \in {data} })

\* AgentCard.fromJSON(json): the card, or the SyntaxError of JSON.parse, or
\* the TypeError of reading a property of null, of calling map on skills
\* that are no array, or of reading the id of a skill that is null
cardFromJSON(json) ==
    The({ IF parsed.status # "ok" THEN Err("SyntaxError")
          ELSE The({ IF \/ d.t = "null"
                        \/ Truthy(skills) /\ skills.t # "array"
                        \/ \E i \in DOMAIN skills.items :
                                 skills.items[i].t \in {"null", "undefined"}
                     THEN Err("TypeError")
                     ELSE Ok(cardFromData(d))
                   : skills \in {GetProperty(parsed.value, sSkills)}, d \in {parsed.value} })
        : parsed \in {JSONparse(json)} })

\* no channel has been handed to setupDataChannel, no interval is set
HeartbeatIdle ==
    /\ channels = << >>
    /\ intervals = {}
    /\ heartbeatHandle = 0

\* no local description has been set
HandshakeIdle == localDescriptions = << >>

\* no AgentCard has been built
CardIdle ==
    /\ card = NotCalled
    /\ cardJson = NotCalled
    /\ cardParsed = NotCalled

(***************************************************************************)
(* Codec scenario: a frame is built, encoded, possibly damaged in transit, *)
(* and handed to decode and then to decodeHeader.                          *)
(***************************************************************************)
\* byte values of the payloads built
PayloadBytes == {0, 255}

RECURSIVE SeqsUpTo(_, _)
\* the sequences over S of length at most n
SeqsUpTo(S, n) ==
    IF n = 0 THEN {<< >>}
    ELSE LET shorter == SeqsUpTo(S, n - 1)
         IN  shorter \cup {Append(q, x) : q \in {r \in shorter : Len(r) = n - 1}, x \in S}

Payloads == SeqsUpTo(PayloadBytes, MaxPayloadLen)

\* 64-bit identifiers: 1, 2^64 - 1, and two with eight different bytes
IdOne == <<1>>
IdMax == <<255, 255, 255, 255, 255, 255, 255, 255>>
IdMixedA == <<1, 2, 3, 4, 5, 6, 7, 128>>
IdMixedB == <<254, 0, 0, 9, 0, 0, 0, 1>>

\* flags, priority and the three identifiers of the frames built
HeaderSamples ==
    {[flags |-> MessageFlagsNone, priority |-> 0,
      messageId |-> IdMixedA, traceId |-> IdMixedB, correlationId |-> << >>],
     [flags |-> 21, priority |-> 255,
      messageId |-> IdMax, traceId |-> IdOne, correlationId |-> IdMixedA],
     [flags |-> 255, priority |-> 7,
      messageId |-> IdOne, traceId |-> << >>, correlationId |-> IdMax]}

Frames ==
    {NewMessage(t, p, [flags |-> h.flags, priority |-> h.priority,
                       traceId |-> h.traceId, correlationId |-> h.correlationId],
                h.messageId, IdOne) :
        t \in MessageType, p \in Payloads, h \in HeaderSamples}

\* what generateMessageId() may return inside decode's constructor call
GeneratedIds == {IdMixedB}

\* byte values an attacker writes into the payload
TamperBytes == PayloadBytes \cup {1, 128}

\* lengths a buffer is cut to
TruncatedLengths == {0, 1, HEADER_SIZE - 1, HEADER_SIZE, HEADER_SIZE + 1}

\* version bytes other than 1
OtherVersions == {0, 2}

\* payload lengths written into the header's length field
DeclaredLengths == {0, 1, 2, 3, MAX_PAYLOAD_SIZE + 1}

Undamaged == [kind |-> "none"]

InitCodec ==
    /\ msg \in Frames
    /\ enc = NotCalled
    /\ wire = << >>
    /\ damage = Undamaged
    /\ decoded = NotCalled
    /\ hdr = NotCalled
    /\ PeerNew
    /\ TransportNew
    /\ TaskNew
    /\ FramesIdle
    /\ BridgeIdle
    /\ JsonIdle
    /\ CardIdle
    /\ HubIdle
    /\ HeartbeatIdle
    /\ HandshakeIdle
    /\ RelayIdle

Encode ==
    /\ enc = NotCalled
    /\ enc' = Ok(encode(msg))
    /\ wire' = enc'.value.bytes
    /\ UNCHANGED <<msg, damage, decoded, hdr, outsideCodec>>

InTransit ==
    /\ enc # NotCalled
    /\ damage = Undamaged
    /\ decoded = NotCalled
    /\ hdr = NotCalled

\* one payload byte is replaced by a different value
TamperPayload ==
    /\ InTransit
    /\ \E i \in 1..(Len(wire) - HEADER_SIZE) : \E b \in TamperBytes \ {wire[HEADER_SIZE + i]} :
          /\ wire' = [wire EXCEPT ![HEADER_SIZE + i] = b]
          /\ damage' = [kind |-> "payload", pos |-> i]
    /\ UNCHANGED <<msg, enc, decoded, hdr, outsideCodec>>

\* the buffer is cut short
Truncate ==
    /\ InTransit
    /\ \E n \in TruncatedLengths :
          /\ n < Len(wire)
          /\ wire' = SubSeq(wire, 1, n)
          /\ damage' = [kind |-> "truncate", len |-> n]
    /\ UNCHANGED <<msg, enc, decoded, hdr, outsideCodec>>

\* the version byte is overwritten
SetVersionByte ==
    /\ InTransit
    /\ \E v \in OtherVersions :
          /\ wire' = [wire EXCEPT ![OffVersion + 1] = v]
          /\ damage' = [kind |-> "version", version |-> v]
    /\ UNCHANGED <<msg, enc, decoded, hdr, outsideCodec>>

\* the payload-length field is overwritten
SetDeclaredLength ==
    /\ InTransit
    /\ \E n \in DeclaredLengths :
          /\ n # Len(msg.payload)
          /\ wire' = SetUint32LE(wire, OffPayloadLength, n)
          /\ damage' = [kind |-> "length", declared |-> n]
    /\ UNCHANGED <<msg, enc, decoded, hdr, outsideCodec>>

Decode ==
    /\ enc # NotCalled
    /\ decoded = NotCalled
    /\ \E g \in GeneratedIds : decoded' = decode(wire, g, g)
    /\ UNCHANGED <<msg, enc, wire, damage, hdr, outsideCodec>>

DecodeHeader ==
    /\ decoded # NotCalled
    /\ hdr = NotCalled
    /\ hdr' = decodeHeader(wire)
    /\ UNCHANGED <<msg, enc, wire, damage, decoded, outsideCodec>>

NextCodec ==
    \/ Encode
    \/ TamperPayload
    \/ Truncate
    \/ SetVersionByte
    \/ SetDeclaredLength
    \/ Decode
    \/ DecodeHeader

SpecCodec == InitCodec /\ [][NextCodec]_vars

(***************************************************************************)
(* Peer scenario: the signaling messages, channel events, chunks and API   *)
(* calls that reach one peer, in every order.                              *)
(***************************************************************************)
\* how many ICE candidates arrive
MaxCandidates == 3

\* how many chunks the data channel delivers
MaxChunks == 3

\* how many buffers send, sendPing and the heartbeat write
MaxWritten == 2

\* how many times close() is called
MaxCloses == 2

\* the codec scenario has not started
CodecIdle ==
    /\ msg = ping(IdOne, IdOne)
    /\ enc = NotCalled
    /\ wire = << >>
    /\ damage = Undamaged
    /\ decoded = NotCalled
    /\ hdr = NotCalled

\* the frames the remote side sends, and what happens to their bytes
ChunkSources ==
    <<[frame |-> NewMessage(MessageTypeCall, <<255>>, << >>, IdMixedA, IdOne),
       damage |-> "none"],
      [frame |-> NewMessage(MessageTypeResponse, << >>,
                            [correlationId |-> IdMixedA], IdMax, IdOne),
       damage |-> "none"],
      [frame |-> ping(IdMixedB, IdOne), damage |-> "none"],
      [frame |-> pong(ping(IdMixedB, IdOne), IdMax, IdMax), damage |-> "none"],
      [frame |-> NewMessage(MessageTypeCall, <<255>>, << >>, IdMixedA, IdOne),
       damage |-> "payload"],
      [frame |-> ping(IdMixedB, IdOne), damage |-> "truncate"]>>

ChunkBytes(source) ==
    The({ CASE source.damage = "none" -> bytes
            [] source.damage = "payload" -> [bytes EXCEPT ![HEADER_SIZE + 1] = 0]
            [] source.damage = "truncate" -> SubSeq(bytes, 1, HEADER_SIZE - 1)
        : bytes \in {encode(source.frame).bytes} })

\* event.data of the message events
Chunks == [c \in DOMAIN ChunkSources |-> ChunkBytes(ChunkSources[c])]

\* decode's outcome for each chunk
DecodedChunks == [c \in DOMAIN Chunks |-> decode(Chunks[c], IdMixedB, IdMixedB)]

\* the frames the application sends
SendFrames == {NewMessage(MessageTypeCall, <<255>>, << >>, IdMixedA, IdOne)}

InitPeer ==
    /\ CodecIdle
    /\ PeerNew
    /\ TransportNew
    /\ TaskNew
    /\ FramesIdle
    /\ BridgeIdle
    /\ JsonIdle
    /\ CardIdle
    /\ HubIdle
    /\ HeartbeatIdle
    /\ HandshakeIdle
    /\ RelayIdle

\* createOffer() up to its first await; createDataChannel throws on a closed
\* connection
CreateOffer ==
    /\ offerer = "idle"
    /\ readyState = "none"
    /\ updateState("connecting")
    /\ IF connectionState = "closed"
       THEN /\ offerer' = "failed"
            /\ UNCHANGED <<dataChannel, readyState>>
       ELSE /\ offerer' = "awaiting"
            /\ dataChannel' = "set"
            /\ readyState' = "connecting"
    /\ UNCHANGED <<outsidePeer, connectionState, signaled, written, closeCalls,
                   lastCall, iceVars, heartbeatTimer, messageVars>>

\* createOffer() after pc.createOffer and pc.setLocalDescription
SendOffer ==
    /\ offerer = "awaiting"
    /\ pcSettles(connectionState)
    /\ offerer' = "sent"
    /\ signaled' = Append(signaled, "offer")
    /\ UNCHANGED <<outsidePeer, state, lastStateChange, connectionState, written,
                   closeCalls, lastCall, iceVars, channelVars, messageVars>>

\* handleOffer() up to its first await; setRemoteDescription rejects on a
\* closed connection
HandleOffer ==
    /\ handler = NoHandler
    /\ updateState("connecting")
    /\ handler' = [kind |-> "offer",
                   at |-> IF connectionState = "closed" THEN "failed"
                          ELSE "setRemoteDescription",
                   index |-> 0]
    /\ UNCHANGED <<outsidePeer, connectionState, offerer, signaled, written,
                   closeCalls, lastCall, pendingCandidates, remoteDescription,
                   received, applied, channelVars, messageVars>>

\* handleAnswer() up to its first await
HandleAnswer ==
    /\ handler = NoHandler
    /\ offerer = "sent"
    /\ handler' = [kind |-> "answer",
                   at |-> IF connectionState = "closed" THEN "failed"
                          ELSE "setRemoteDescription",
                   index |-> 0]
    /\ UNCHANGED <<outsidePeer, state, lastStateChange, connectionState, offerer,
                   signaled, written, closeCalls, lastCall, pendingCandidates,
                   remoteDescription, received, applied, channelVars,
                   messageVars>>

\* pc.setRemoteDescription resolves; the handler enters
\* processPendingCandidates
SetRemoteDescriptionDone ==
    /\ handler.at = "setRemoteDescription"
    /\ pcSettles(connectionState)
    /\ remoteDescription' = TRUE
    /\ processPendingCandidates(1)
    /\ UNCHANGED <<outsidePeer, state, lastStateChange, connectionState, offerer,
                   signaled, written, closeCalls, lastCall, received,
                   channelVars, messageVars>>

\* pc.addIceCandidate of the loop resolves; the loop goes on
AddIceCandidateDone ==
    /\ handler.at = "addIceCandidate"
    /\ pcSettles(connectionState)
    /\ processPendingCandidates(handler.index + 1)
    /\ UNCHANGED <<outsidePeer, state, lastStateChange, connectionState, offerer,
                   signaled, written, closeCalls, lastCall, received,
                   remoteDescription, channelVars, messageVars>>

\* handleOffer() after processPendingCandidates: createAnswer,
\* setLocalDescription, sendSignaling
SendAnswer ==
    /\ handler.at = "createAnswer"
    /\ pcSettles(connectionState)
    /\ handler' = [handler EXCEPT !.at = "done"]
    /\ signaled' = Append(signaled, "answer")
    /\ UNCHANGED <<outsidePeer, state, lastStateChange, connectionState, offerer,
                   written, closeCalls, lastCall, pendingCandidates,
                   remoteDescription, received, applied, channelVars,
                   messageVars>>

\* handleIceCandidate(candidate); candidates are numbered as they arrive
HandleIceCandidate ==
    /\ Len(received) < MaxCandidates
    /\ \E candidate \in {Len(received) + 1} :
          /\ received' = Append(received, [candidate |-> candidate,
                                           early |-> ~remoteDescription])
          /\ IF handleIceCandidate(remoteDescription) = "addIceCandidate"
             THEN /\ applied' = IF addIceCandidateAccepts
                                THEN Append(applied, candidate) ELSE applied
                  /\ UNCHANGED pendingCandidates
             ELSE /\ pendingCandidates' = Append(pendingCandidates, candidate)
                  /\ UNCHANGED applied
    /\ UNCHANGED <<outsidePeer, state, lastStateChange, connectionState, offerer,
                   signaled, written, closeCalls, lastCall, remoteDescription,
                   handler, channelVars, messageVars>>

\* pc.ondatachannel: the remote side's channel is announced
OnDataChannel ==
    /\ readyState = "none"
    /\ remoteDescription
    /\ connectionState # "closed"
    /\ dataChannel' = "set"
    /\ readyState' = "connecting"
    /\ UNCHANGED <<outsidePeer, state, lastStateChange, connectionState, offerer,
                   signaled, written, closeCalls, lastCall, iceVars,
                   heartbeatTimer, messageVars>>

\* channel.onopen, with startHeartbeat
DataChannelOpen ==
    /\ readyState = "connecting"
    /\ remoteDescription
    /\ connectionState # "closed"
    /\ readyState' = "open"
    /\ updateState("connected")
    /\ heartbeatTimer' = TRUE
    /\ UNCHANGED <<outsidePeer, connectionState, offerer, signaled, written,
                   closeCalls, lastCall, iceVars, dataChannel, messageVars>>

\* channel.onclose, with stopHeartbeat: the channel has closed, by either
\* side's doing
DataChannelClose ==
    /\ readyState \in {"connecting", "open", "closing"}
    /\ readyState' = "closed"
    /\ updateState("disconnected")
    /\ heartbeatTimer' = FALSE
    /\ UNCHANGED <<outsidePeer, connectionState, offerer, signaled, written,
                   closeCalls, lastCall, iceVars, dataChannel, messageVars>>

\* the states an RTCPeerConnection goes to by itself
ConnectionStateAfter(rtcState) ==
    CASE rtcState = "new" -> {"connecting"}
      [] rtcState = "connecting" -> {"connected", "failed"}
      [] rtcState = "connected" -> {"disconnected"}
      [] rtcState = "disconnected" -> {"connected", "failed"}
      [] OTHER -> {}

\* pc.onconnectionstatechange
ConnectionStateChange ==
    /\ \E rtcState \in ConnectionStateAfter(connectionState) :
          /\ connectionState' = rtcState
          /\ updateState(mapConnectionState(rtcState))
    /\ UNCHANGED <<outsidePeer, offerer, signaled, written, closeCalls, lastCall,
                   iceVars, channelVars, messageVars>>

\* channel.onmessage, with the message handler the transport registered; a
\* channel still delivers while it is closing
HandleMessage ==
    /\ readyState \in {"open", "closing"}
    /\ Len(inbound) < MaxChunks
    /\ \E c \in DOMAIN Chunks : \E g \in GeneratedIds :
       \E message \in {DecodedChunks[c]} : \E branch \in {handleMessage(message)} :
          /\ inbound' = Append(inbound, c)
          /\ CASE branch = "onError" ->
                    /\ errors' = errors + 1
                    /\ UNCHANGED <<delivered, messagesReceived, messageEvents, written>>
               [] branch = "sendPong" ->
                    /\ \E sent \in {send(pong(message.value, g, g))} :
                          /\ written' = sent.written
                          /\ errors' = IF sent.result.status = "error"
                                       THEN errors + 1 ELSE errors
                    /\ UNCHANGED <<delivered, messagesReceived, messageEvents>>
               [] branch = "return" ->
                    UNCHANGED <<delivered, messagesReceived, messageEvents, written, errors>>
               [] branch = "onMessage" ->
                    /\ delivered' = Append(delivered, c)
                    /\ messagesReceived' = messagesReceived + 1
                    /\ messageEvents' = Append(messageEvents, c)
                    /\ UNCHANGED <<written, errors>>
    /\ UNCHANGED <<outsidePeer, state, lastStateChange, connectionState, offerer,
                   signaled, closeCalls, lastCall, iceVars, channelVars>>

\* what a call that leaves the peer's fields alone is recorded as
CallRecord(op, sent) ==
    [op |-> op, after |-> closeCalls, result |-> sent.result,
     wrote |-> Len(sent.written) - Len(written),
     changed |-> FALSE, emitted |-> FALSE]

\* the application calls send(message)
Send ==
    /\ \E message \in SendFrames : \E sent \in {send(message)} :
          /\ Len(sent.written) <= MaxWritten
          /\ written' = sent.written
          /\ lastCall' = CallRecord("send", sent)
    /\ UNCHANGED <<outsidePeer, state, lastStateChange, connectionState, offerer,
                   signaled, closeCalls, iceVars, channelVars, messageVars>>

\* the application calls sendPing()
SendPing ==
    /\ \E g \in GeneratedIds : \E sent \in {send(ping(g, g))} :
          /\ Len(sent.written) <= MaxWritten
          /\ written' = sent.written
          /\ lastCall' = CallRecord("sendPing", sent)
    /\ UNCHANGED <<outsidePeer, state, lastStateChange, connectionState, offerer,
                   signaled, closeCalls, iceVars, channelVars, messageVars>>

\* the interval callback of startHeartbeat
HeartbeatTick ==
    /\ heartbeatTimer
    /\ IF state = "connected"
       THEN \E g \in GeneratedIds : \E sent \in {send(ping(g, g))} :
               /\ Len(sent.written) <= MaxWritten
               /\ written' = sent.written
       ELSE UNCHANGED written
    /\ UNCHANGED <<outsidePeer, state, lastStateChange, connectionState, offerer,
                   signaled, closeCalls, lastCall, iceVars, channelVars,
                   messageVars>>

\* the application calls close()
Close ==
    /\ closeCalls < MaxCloses
    /\ closeCalls' = closeCalls + 1
    /\ heartbeatTimer' = FALSE
    /\ dataChannel' = "null"
    /\ readyState' = IF dataChannel # "null" /\ readyState \in {"connecting", "open"}
                     THEN "closing" ELSE readyState
    /\ connectionState' = "closed"
    /\ updateState("closed")
    /\ lastCall' = [op |-> "close", after |-> closeCalls, result |-> Ok("undefined"),
                    wrote |-> 0,
                    changed |-> <<state', dataChannel', readyState', heartbeatTimer',
                                  connectionState'>>
                                # <<state, dataChannel, readyState, heartbeatTimer,
                                    connectionState>>,
                    emitted |-> state # "closed"]
    /\ UNCHANGED <<outsidePeer, offerer, signaled, written, iceVars, messageVars>>

\* Signaling: the peer as offerer or answerer, the candidates that reach
\* it, and close().  Channel events and data traffic leave the candidate
\* queue alone and are left out.
NextSignaling ==
    \/ CreateOffer
    \/ SendOffer
    \/ HandleOffer
    \/ HandleAnswer
    \/ SetRemoteDescriptionDone
    \/ AddIceCandidateDone
    \/ SendAnswer
    \/ HandleIceCandidate
    \/ Close

SpecSignaling == InitPeer /\ [][NextSignaling]_vars

\* Lifecycle: the peer as offerer or answerer without candidates, the
\* events of its channel and its connection, and the application's calls.
NextLifecycle ==
    \/ CreateOffer
    \/ SendOffer
    \/ HandleOffer
    \/ HandleAnswer
    \/ SetRemoteDescriptionDone
    \/ SendAnswer
    \/ OnDataChannel
    \/ DataChannelOpen
    \/ DataChannelClose
    \/ ConnectionStateChange
    \/ Send
    \/ SendPing
    \/ HeartbeatTick
    \/ Close

SpecLifecycle == InitPeer /\ [][NextLifecycle]_vars

\* Delivery: the peer as answerer, the events of the remote side's channel,
\* the chunks that arrive on it, and close().
NextDelivery ==
    \/ HandleOffer
    \/ SetRemoteDescriptionDone
    \/ SendAnswer
    \/ OnDataChannel
    \/ DataChannelOpen
    \/ DataChannelClose
    \/ HandleMessage
    \/ Close

SpecDelivery == InitPeer /\ [][NextDelivery]_vars

(***************************************************************************)
(* Heartbeat scenario: the peer as offerer or answerer with every channel  *)
(* it is handed, the one createOffer creates and the ones the remote side  *)
(* announces.  setupDataChannel attaches the same handlers to each of them *)
(* and makes the last one Peer.dataChannel; dataChannel, readyState and    *)
(* heartbeatTimer describe that channel and Peer.heartbeatTimer as before. *)
(***************************************************************************)
MaxChannels == 2

\* createOffer() up to its first await, with setupDataChannel
OfferChannel ==
    /\ offerer = "idle"
    /\ Len(channels) < MaxChannels
    /\ updateState("connecting")
    /\ IF connectionState = "closed"
       THEN /\ offerer' = "failed"
            /\ UNCHANGED <<dataChannel, readyState, channels>>
       ELSE /\ offerer' = "awaiting"
            /\ channels' = Append(channels, "connecting")
            /\ dataChannel' = "set"
            /\ readyState' = "connecting"
    /\ UNCHANGED <<outsideHeartbeat, connectionState, signaled, written, closeCalls,
                   lastCall, iceVars, heartbeatTimer, messageVars, intervals,
                   heartbeatHandle>>

\* pc.ondatachannel, with setupDataChannel: the remote side announces a
\* channel, its first or another one
RemoteChannel ==
    /\ Len(channels) < MaxChannels
    /\ remoteDescription
    /\ connectionState # "closed"
    /\ channels' = Append(channels, "connecting")
    /\ dataChannel' = "set"
    /\ readyState' = "connecting"
    /\ UNCHANGED <<outsideHeartbeat, state, lastStateChange, connectionState, offerer,
                   signaled, written, closeCalls, lastCall, iceVars, heartbeatTimer,
                   messageVars, intervals, heartbeatHandle>>

\* channel.onopen of channel i, with startHeartbeat; the interval is named
\* after the channel whose opening set it
ChannelOpens ==
    /\ remoteDescription
    /\ connectionState # "closed"
    /\ \E i \in DOMAIN channels : \E started \in {startHeartbeat(i)} :
          /\ channels[i] = "connecting"
          /\ channels' = [channels EXCEPT ![i] = "open"]
          /\ readyState' = IF i = Len(channels) THEN "open" ELSE readyState
          /\ intervals' = started.intervals
          /\ heartbeatHandle' = started.heartbeatHandle
          /\ heartbeatTimer' = (started.heartbeatHandle # 0)
    /\ updateState("connected")
    /\ UNCHANGED <<outsideHeartbeat, connectionState, offerer, signaled, written,
                   closeCalls, lastCall, iceVars, dataChannel, messageVars>>

\* channel.onclose of channel i, with stopHeartbeat: the channel has closed,
\* by either side's doing
ChannelCloses ==
    /\ \E i \in DOMAIN channels : \E stopped \in {stopHeartbeat} :
          /\ channels[i] \in {"connecting", "open", "closing"}
          /\ channels' = [channels EXCEPT ![i] = "closed"]
          /\ readyState' = IF i = Len(channels) THEN "closed" ELSE readyState
          /\ intervals' = stopped.intervals
          /\ heartbeatHandle' = stopped.heartbeatHandle
          /\ heartbeatTimer' = (stopped.heartbeatHandle # 0)
    /\ updateState("disconnected")
    /\ UNCHANGED <<outsideHeartbeat, connectionState, offerer, signaled, written,
                   closeCalls, lastCall, iceVars, dataChannel, messageVars>>

\* the callback of one of the intervals that are set; an exception of
\* sendPing ends the callback
IntervalTick ==
    /\ \E i \in intervals :
          IF state = "connected"
          THEN \E g \in GeneratedIds : \E sent \in {send(ping(g, g))} :
                  /\ Len(sent.written) <= MaxWritten
                  /\ written' = sent.written
          ELSE UNCHANGED written
    /\ UNCHANGED <<outsideHeartbeat, state, lastStateChange, connectionState, offerer,
                   signaled, closeCalls, lastCall, iceVars, channelVars, messageVars,
                   heartbeatVars>>

\* the application calls close(): stopHeartbeat, dataChannel.close() on the
\* channel Peer.dataChannel refers to, pc.close(), which closes every
\* channel of the connection, updateState(Closed)
ClosePeer ==
    /\ closeCalls < MaxCloses
    /\ closeCalls' = closeCalls + 1
    /\ \E stopped \in {stopHeartbeat} :
          /\ intervals' = stopped.intervals
          /\ heartbeatHandle' = stopped.heartbeatHandle
          /\ heartbeatTimer' = (stopped.heartbeatHandle # 0)
    /\ dataChannel' = "null"
    /\ channels' = [i \in DOMAIN channels |->
                       IF channels[i] \in {"connecting", "open"} THEN "closing"
                       ELSE channels[i]]
    /\ readyState' = IF readyState \in {"connecting", "open"} THEN "closing"
                     ELSE readyState
    /\ connectionState' = "closed"
    /\ updateState("closed")
    /\ lastCall' = [op |-> "close", after |-> closeCalls, result |-> Ok("undefined"),
                    wrote |-> 0,
                    changed |-> <<state', dataChannel', readyState', heartbeatTimer',
                                  connectionState'>>
                                # <<state, dataChannel, readyState, heartbeatTimer,
                                    connectionState>>,
                    emitted |-> state # "closed"]
    /\ UNCHANGED <<outsideHeartbeat, offerer, signaled, written, iceVars, messageVars>>

NextHeartbeat ==
    \/ OfferChannel
    \/ SendOffer
    \/ HandleOffer
    \/ HandleAnswer
    \/ SetRemoteDescriptionDone
    \/ SendAnswer
    \/ RemoteChannel
    \/ ChannelOpens
    \/ ChannelCloses
    \/ ConnectionStateChange
    \/ IntervalTick
    \/ ClosePeer

SpecHeartbeat == InitPeer /\ [][NextHeartbeat]_vars

(***************************************************************************)
(* Handshake scenario: createOffer and handleOffer await by await.  Each   *)
(* step is the code between two awaits; the step after setLocalDescription *)
(* is split into the connection's taking the description and the code that *)
(* runs once the promise has resolved.                                     *)
(***************************************************************************)
\* pc.createOffer() resolves; createOffer calls pc.setLocalDescription(offer)
CreateOfferDone ==
    /\ offerer = "awaiting"
    /\ pcSettles(connectionState)
    /\ offerer' = "setLocalDescription"
    /\ UNCHANGED <<outsideHandshake, handshakeVars, state, lastStateChange,
                   connectionState, signaled, written, closeCalls, lastCall, iceVars,
                   channelVars, messageVars>>

\* the connection takes the offer as its local description
OfferDescriptionSet ==
    /\ offerer = "setLocalDescription"
    /\ pcSettles(connectionState)
    /\ offerer' = "sendSignaling"
    /\ localDescriptions' = Append(localDescriptions, "offer")
    /\ UNCHANGED <<outsideHandshake, state, lastStateChange, connectionState, signaled,
                   written, closeCalls, lastCall, iceVars, channelVars, messageVars>>

\* pc.setLocalDescription(offer) resolves; createOffer calls sendSignaling
OfferSignaled ==
    /\ offerer = "sendSignaling"
    /\ pcSettles(connectionState)
    /\ offerer' = "sent"
    /\ signaled' = Append(signaled, "offer")
    /\ UNCHANGED <<outsideHandshake, handshakeVars, state, lastStateChange,
                   connectionState, written, closeCalls, lastCall, iceVars, channelVars,
                   messageVars>>

\* pc.createAnswer() resolves; handleOffer calls pc.setLocalDescription(answer)
CreateAnswerDone ==
    /\ handler.at = "createAnswer"
    /\ pcSettles(connectionState)
    /\ handler' = [handler EXCEPT !.at = "setLocalDescription"]
    /\ UNCHANGED <<outsideHandshake, handshakeVars, state, lastStateChange,
                   connectionState, offerer, signaled, written, closeCalls, lastCall,
                   pendingCandidates, remoteDescription, received, applied, channelVars,
                   messageVars>>

\* the connection takes the answer as its local description
AnswerDescriptionSet ==
    /\ handler.at = "setLocalDescription"
    /\ pcSettles(connectionState)
    /\ handler' = [handler EXCEPT !.at = "sendSignaling"]
    /\ localDescriptions' = Append(localDescriptions, "answer")
    /\ UNCHANGED <<outsideHandshake, state, lastStateChange, connectionState, offerer,
                   signaled, written, closeCalls, lastCall, pendingCandidates,
                   remoteDescription, received, applied, channelVars, messageVars>>

\* pc.setLocalDescription(answer) resolves; handleOffer calls sendSignaling
AnswerSignaled ==
    /\ handler.at = "sendSignaling"
    /\ pcSettles(connectionState)
    /\ handler' = [handler EXCEPT !.at = "done"]
    /\ signaled' = Append(signaled, "answer")
    /\ UNCHANGED <<outsideHandshake, handshakeVars, state, lastStateChange,
                   connectionState, offerer, written, closeCalls, lastCall,
                   pendingCandidates, remoteDescription, received, applied, channelVars,
                   messageVars>>

\* Handshake: the peer as offerer or answerer with every await of its own,
\* the candidates that reach it, its channel and close().
NextHandshake ==
    \/ CreateOffer
    \/ CreateOfferDone
    \/ OfferDescriptionSet
    \/ OfferSignaled
    \/ HandleOffer
    \/ HandleAnswer
    \/ SetRemoteDescriptionDone
    \/ AddIceCandidateDone
    \/ CreateAnswerDone
    \/ AnswerDescriptionSet
    \/ AnswerSignaled
    \/ HandleIceCandidate
    \/ OnDataChannel
    \/ DataChannelOpen
    \/ DataChannelClose
    \/ Close

SpecHandshake == InitPeer /\ [][NextHandshake]_vars

(***************************************************************************)
(* Transport scenario: the application calls connect, send and broadcast   *)
(* on a WebRTCTransport, signaling messages reach it, and the connections  *)
(* and channels of its peers change state.                                 *)
(***************************************************************************)
MaxPeerObjects == 2
MaxFed == 1
MaxSent == 2
MaxSignalsOut == 2

\* the signaling messages that reach the transport
SignalingMessages ==
    {[type |-> t, from |-> f, to |-> a, payload |-> "sdp"]
        : t \in {"offer", "answer"}, f \in PeerIds, a \in {LocalId, OtherId}}
    \cup {[type |-> "ice-candidate", from |-> f, to |-> a, payload |-> p]
        : f \in PeerIds, a \in {LocalId, OtherId}, p \in {"candidate", "null"}}
    \cup {[type |-> "hangup", from |-> f, to |-> a, payload |-> "null"]
        : f \in PeerIds, a \in {LocalId, OtherId}}

\* the peer the application connects to
ConnectTargets == {"alice"}

\* the frame the application sends
SentFrame == ping(IdOne, IdOne)

\* const { bytes } = encode(message) of send and broadcast
SentBytes == encode(SentFrame).bytes

\* a step that is no call of the application or the signaling provider
Event == [op |-> "event"]

\* the transport and its peers as one value
World ==
    [peers |-> peers, peerObjects |-> peerObjects, stats |-> stats,
     connectCalls |-> connectCalls, signalsOut |-> signalsOut]

\* the transport and its peers become w
Becomes(w) ==
    /\ peers' = w.peers
    /\ peerObjects' = w.peerObjects
    /\ stats' = w.stats
    /\ connectCalls' = w.connectCalls
    /\ signalsOut' = w.signalsOut

RECURSIVE CandidatesFed(_, _)
\* the candidates the first n peers have been fed
CandidatesFed(objects, n) ==
    IF n = 0 THEN 0
    ELSE objects[n].pendingCandidates + objects[n].applied + CandidatesFed(objects, n - 1)

\* the offers and answers w has sent or is about to send
SignalsDue(w) ==
    Len(w.signalsOut)
    + Cardinality({c \in DOMAIN w.connectCalls : w.connectCalls[c].at = "createOffer"})
    + Cardinality({i \in DOMAIN w.peerObjects : w.peerObjects[i].awaiting = "offer"})

\* the peers stay within the bounds of the scenario
WithinBounds(w) ==
    /\ Len(w.peerObjects) <= MaxPeerObjects
    /\ SignalsDue(w) <= MaxSignalsOut
    /\ w.stats.messagesSent <= MaxSent
    /\ CandidatesFed(w.peerObjects, Len(w.peerObjects)) <= MaxFed

\* the application calls connect(peerId): the call returns at once, or runs
\* to its first await
Connect ==
    /\ \E id \in ConnectTargets : \E w \in {connect(World, id)} :
          /\ WithinBounds(w)
          /\ Becomes(w)
          /\ lastOp' = [op |-> "connect", peerId |-> id, returned |-> w = World]
    /\ UNCHANGED outsideTransport

\* the error WebSocketSignaling.send throws while the socket is not open
ProviderError == "WebSocket not connected"

\* pc.createOffer and pc.setLocalDescription have settled for connect call
\* c, and createOffer calls sendSignaling, which throws or takes the offer:
\* connect awaits peer.createOffer() without a try, so what sendSignaling
\* throws is what connect rejects with, and nothing else runs
OfferCreated ==
    /\ \E c \in DOMAIN connectCalls : \E taken \in BOOLEAN :
          /\ connectCalls[c].at = "createOffer"
          /\ IF peerObjects[connectCalls[c].peer].connectionState = "closed"
             THEN /\ connectCalls' = [connectCalls EXCEPT ![c].at = "settled",
                                                          ![c].result = "rejected"]
                  /\ UNCHANGED <<peerObjects, signalsOut>>
             ELSE IF ~taken
             THEN /\ connectCalls' = [connectCalls EXCEPT ![c].at = "settled",
                                                          ![c].result = ProviderError]
                  /\ peerObjects' = [peerObjects EXCEPT
                                        ![connectCalls[c].peer].localDescription = TRUE]
                  /\ UNCHANGED signalsOut
             ELSE /\ connectCalls' = [connectCalls EXCEPT ![c].at = "sendSignaling"]
                  /\ peerObjects' = [peerObjects EXCEPT
                                        ![connectCalls[c].peer].localDescription = TRUE]
                  /\ signalsOut' = Append(signalsOut,
                                          [type |-> "offer", to |-> connectCalls[c].peerId])
          /\ lastOp' = Event
    /\ UNCHANGED <<outsideTransport, peers, stats>>

\* sendSignaling has resolved for connect call c: createOffer returns and
\* connect calls waitForConnection
SignalingSent ==
    /\ \E c \in DOMAIN connectCalls : \E w \in {waitForConnection(World, c)} :
          /\ connectCalls[c].at = "sendSignaling"
          /\ Becomes(w)
          /\ lastOp' = Event
    /\ UNCHANGED outsideTransport

\* the timer of waitForConnection fires for connect call c
ConnectionTimeout ==
    /\ \E c \in DOMAIN connectCalls :
          /\ connectCalls[c].at = "waiting"
          /\ connectCalls' = [connectCalls EXCEPT ![c].at = "settled",
                                                  ![c].result = "Connection timeout"]
          /\ lastOp' = Event
    /\ UNCHANGED <<outsideTransport, peers, peerObjects, stats, signalsOut>>

\* pc.setRemoteDescription takes an offer unless the connection is closed,
\* and an answer only to the offer it has made
setRemoteDescriptionRejects(peer) ==
    \/ peer.connectionState = "closed"
    \/ /\ peer.awaiting = "answer"
       /\ ~peer.localDescription \/ peer.remoteDescription

\* pc.setRemoteDescription has settled for peer i: handleAnswer goes on to
\* processPendingCandidates, handleOffer also to the answer it sends
RemoteDescriptionSet ==
    /\ \E i \in DOMAIN peerObjects :
          /\ peerObjects[i].awaiting # "none"
          /\ IF setRemoteDescriptionRejects(peerObjects[i])
             THEN /\ peerObjects' = [peerObjects EXCEPT ![i].awaiting = "none"]
                  /\ UNCHANGED signalsOut
             ELSE /\ peerObjects' =
                        [peerObjects EXCEPT
                            ![i].awaiting = "none",
                            ![i].remoteDescription = TRUE,
                            ![i].applied = @ + peerObjects[i].pendingCandidates,
                            ![i].pendingCandidates = 0,
                            ![i].localDescription =
                                @ \/ peerObjects[i].awaiting = "offer"]
                  /\ signalsOut' =
                        IF peerObjects[i].awaiting = "offer"
                        THEN Append(signalsOut,
                                    [type |-> "answer", to |-> peerObjects[i].id])
                        ELSE signalsOut
          /\ lastOp' = Event
    /\ UNCHANGED <<outsideTransport, peers, stats, connectCalls>>

\* pc.onconnectionstatechange of peer i, once both descriptions are set
PeerConnectionStateChange ==
    /\ \E i \in DOMAIN peerObjects :
       \E rtcState \in ConnectionStateAfter(peerObjects[i].connectionState) :
       \E w \in {peerUpdateState([World EXCEPT !.peerObjects[i].connectionState = rtcState],
                                 i, mapConnectionState(rtcState))} :
          /\ peerObjects[i].localDescription
          /\ peerObjects[i].remoteDescription
          /\ Becomes(w)
          /\ lastOp' = Event
    /\ UNCHANGED outsideTransport

\* pc.ondatachannel of peer i: the remote side's channel is announced
PeerOnDataChannel ==
    /\ \E i \in DOMAIN peerObjects :
          /\ peerObjects[i].readyState = "none"
          /\ peerObjects[i].localDescription
          /\ peerObjects[i].remoteDescription
          /\ peerObjects[i].connectionState # "closed"
          /\ peerObjects' = [peerObjects EXCEPT ![i].dataChannel = TRUE,
                                                ![i].readyState = "connecting"]
          /\ lastOp' = Event
    /\ UNCHANGED <<outsideTransport, peers, stats, connectCalls, signalsOut>>

\* channel.onopen of peer i: a channel opens over a connected connection
PeerChannelOpen ==
    /\ \E i \in DOMAIN peerObjects :
       \E w \in {peerUpdateState([World EXCEPT !.peerObjects[i].readyState = "open"],
                                 i, "connected")} :
          /\ peerObjects[i].readyState = "connecting"
          /\ peerObjects[i].connectionState = "connected"
          /\ Becomes(w)
          /\ lastOp' = Event
    /\ UNCHANGED outsideTransport

\* channel.onclose of peer i: an open channel is closed by the remote side,
\* a closing one has been closed by Peer.close
PeerChannelClose ==
    /\ \E i \in DOMAIN peerObjects :
       \E w \in {peerUpdateState([World EXCEPT !.peerObjects[i].readyState = "closed"],
                                 i, "disconnected")} :
          /\ peerObjects[i].readyState \in {"open", "closing"}
          /\ Becomes(w)
          /\ lastOp' = Event
    /\ UNCHANGED outsideTransport

\* the signaling provider hands signal to the handler the constructor
\* registered; a peer takes its next description once the last one is set
Signaled(signal) ==
    /\ \E w \in {handleSignalingMessage(World, signal)} :
          /\ IF signal.to = LocalId /\ signal.type \in {"offer", "answer"}
                /\ peers[signal.from] # 0
             THEN peerObjects[peers[signal.from]].awaiting = "none"
             ELSE TRUE
          /\ WithinBounds(w)
          /\ Becomes(w)
          /\ lastOp' = [op |-> "signaling", addressed |-> signal.to = LocalId,
                        carries |-> signal.payload # "null"]
    /\ UNCHANGED outsideTransport

\* any signaling message reaches the transport
HandleSignalingMessage == \E signal \in SignalingMessages : Signaled(signal)

\* the answer of a peer the application connects to reaches the transport
AnswerArrives ==
    \E from \in ConnectTargets :
        Signaled([type |-> "answer", from |-> from, to |-> LocalId, payload |-> "sdp"])

\* the offer of a remote peer reaches the transport
OfferArrives ==
    \E from \in PeerIds :
        Signaled([type |-> "offer", from |-> from, to |-> LocalId, payload |-> "sdp"])

\* the application calls send(peerId, message)
TransportSend ==
    /\ \E id \in PeerIds : \E sent \in {transportSend(World, id, SentBytes)} :
          /\ WithinBounds(sent.world)
          /\ Becomes(sent.world)
          /\ lastOp' = [op |-> "send", result |-> sent.result]
    /\ UNCHANGED outsideTransport

\* the application calls broadcast(message)
Broadcast ==
    /\ \E sent \in {broadcast(World, SentBytes)} :
          /\ WithinBounds(sent.world)
          /\ Becomes(sent.world)
          /\ lastOp' = [op |-> "broadcast",
                        attempted |-> sent.attempted, succeeded |-> sent.succeeded]
    /\ UNCHANGED outsideTransport

InitTransport ==
    /\ CodecIdle
    /\ PeerNew
    /\ TransportNew
    /\ TaskNew
    /\ FramesIdle
    /\ BridgeIdle
    /\ JsonIdle
    /\ CardIdle
    /\ HubIdle
    /\ HeartbeatIdle
    /\ HandshakeIdle
    /\ RelayIdle

\* Connecting: the calls of connect, the answers and hangups that reach the
\* transport, and what the connections and channels of the peers do
NextConnect ==
    \/ Connect
    \/ OfferCreated
    \/ SignalingSent
    \/ ConnectionTimeout
    \/ AnswerArrives
    \/ RemoteDescriptionSet
    \/ PeerConnectionStateChange
    \/ PeerChannelOpen
    \/ PeerChannelClose

SpecConnect == InitTransport /\ [][NextConnect]_vars

\* Dispatching: the signaling messages that reach the transport and the
\* descriptions the peers take from them
NextDispatch ==
    \/ HandleSignalingMessage
    \/ RemoteDescriptionSet

SpecDispatch == InitTransport /\ [][NextDispatch]_vars

\* Sending: peers in the role of responder, their connections and channels,
\* and send and broadcast
NextSend ==
    \/ OfferArrives
    \/ RemoteDescriptionSet
    \/ PeerConnectionStateChange
    \/ PeerOnDataChannel
    \/ PeerChannelOpen
    \/ PeerChannelClose
    \/ TransportSend
    \/ Broadcast

SpecSend == InitTransport /\ [][NextSend]_vars

(***************************************************************************)
(* Task scenario: the application calls setStatus, addArtifact and         *)
(* addMessage on a new Task, and the task is then taken through toJSON and *)
(* fromJSON.                                                               *)
(***************************************************************************)
MaxSetStatus == 3

\* most artifacts added to the task, most messages added to its history
MaxArtifacts == 1
MaxHistory == 1

\* options that leave everything to the constructor
NoOptions ==
    [contextId |-> JSUndefined, messageId |-> JSUndefined, taskId |-> JSUndefined,
     metadata |-> JSUndefined]

\* Message.agentText('hi') and Message.userText('')
TaskMessages ==
    {NewA2AMessage(JSString(sAgent), <<PartText(<<104, 105>>)>>, NoOptions, UuidBuilt, UuidBuilt),
     NewA2AMessage(JSString(sUser), <<PartText(<< >>)>>, NoOptions, UuidBuilt, UuidBuilt)}

\* Artifact.text('out', 'hi', { description: 'd', metadata: { k: 7 } }) and
\* Artifact.data('n', null)
ArtifactsOffered ==
    {NewArtifact(JSString(<<111, 117, 116>>), <<PartText(<<104, 105>>)>>,
                 [description |-> JSString(<<100>>),
                  metadata |-> JSObject(<<Member(<<107>>, JSNumber(7))>>)],
                 UuidBuilt),
     NewArtifact(JSString(<<110>>), <<PartData(JSNull)>>,
                 [description |-> JSUndefined, metadata |-> JSUndefined], UuidBuilt)}

\* the application calls setStatus(state) or setStatus(state, message)
SetStatus ==
    /\ taskJson = NotCalled
    /\ Len(taskStates) <= MaxSetStatus
    /\ \E taskState \in TaskState :
       \E message \in {JSUndefined, NewA2AMessage(JSString(sAgent), <<PartText(<<104, 105>>)>>,
                                                  NoOptions, UuidBuilt, UuidBuilt)} :
       \E t \in {setStatus(task, taskState, message, TimeBuilt)} :
          /\ task' = t
          /\ taskStates' = Append(taskStates, t.status.state)
    /\ UNCHANGED <<taskJson, taskParsed, outsideTask>>

\* the application calls addArtifact(artifact)
AddArtifact ==
    /\ taskJson = NotCalled
    /\ Len(task.artifacts) < MaxArtifacts
    /\ \E artifact \in ArtifactsOffered : task' = addArtifact(task, artifact)
    /\ UNCHANGED <<taskStates, taskJson, taskParsed, outsideTask>>

\* the application calls addMessage(message)
AddMessage ==
    /\ taskJson = NotCalled
    /\ Len(task.history) < MaxHistory
    /\ \E message \in TaskMessages : task' = addMessage(task, message)
    /\ UNCHANGED <<taskStates, taskJson, taskParsed, outsideTask>>

\* the application calls task.toJSON()
TaskToJSON ==
    /\ taskJson = NotCalled
    /\ taskJson' = Ok(taskToJSON(task))
    /\ UNCHANGED <<task, taskStates, taskParsed, outsideTask>>

\* the receiving side calls Task.fromJSON on it
TaskFromJSON ==
    /\ taskJson # NotCalled
    /\ taskParsed = NotCalled
    /\ taskParsed' = taskFromJSON(taskJson.value, UuidReceived, UuidReceived, TimeReceived)
    /\ UNCHANGED <<task, taskStates, taskJson, outsideTask>>

InitTask ==
    /\ CodecIdle
    /\ PeerNew
    /\ TransportNew
    /\ TaskNew
    /\ FramesIdle
    /\ BridgeIdle
    /\ JsonIdle
    /\ CardIdle
    /\ HubIdle
    /\ HeartbeatIdle
    /\ HandshakeIdle
    /\ RelayIdle

NextTask ==
    \/ SetStatus
    \/ AddArtifact
    \/ AddMessage
    \/ TaskToJSON
    \/ TaskFromJSON

SpecTask == InitTask /\ [][NextTask]_vars

(***************************************************************************)
(* Frame scenario: the application builds a frame that asks for an answer  *)
(* or opens a stream, then a frame in reply to it or as part of its        *)
(* stream, as the signatures of the helpers allow; the frames of a stream  *)
(* cross the codec.                                                        *)
(***************************************************************************)
\* what generateMessageId() returns for the first frame: 64 bits of
\* crypto.getRandomValues, zero among them
CauseMessageIds == {IdMixedA, << >>}

\* what generateTraceId() returns for the first frame
CauseTraceId == IdOne

\* what generateTraceId() returns for the second frame: another value, or
\* by chance the same
DerivedTraceIds == {IdMax, CauseTraceId}

\* the message a stream is opened with: Message.create(Role.User, [])
StreamMessage == NewA2AMessage(JSString(sUser), << >>, NoOptions, UuidBuilt, UuidBuilt)

\* the payloads handed to the helpers
FramePayloads == {<< >>, <<97>>}

\* the options a caller passes to a helper that takes options: none, or
\* the trace id of the frame it answers
OptionsGiven == {<< >>, [traceId |-> causeFrame.frame.traceId]}

\* Message.call(payload)
Call ==
    /\ causeFrame = NoFrame
    /\ \E genMessageId \in CauseMessageIds : \E payload \in FramePayloads :
          causeFrame' = [origin |-> "call",
                         frame |-> call(payload, << >>, genMessageId, CauseTraceId)]
    /\ UNCHANGED <<derivedFrame, framesWire, framesReceived, outsideFrames>>

\* Message.streamOpen(payload)
StreamOpen ==
    /\ causeFrame = NoFrame
    /\ \E genMessageId \in CauseMessageIds : \E payload \in FramePayloads :
          causeFrame' = [origin |-> "streamOpen",
                         frame |-> streamOpen(payload, << >>, genMessageId, CauseTraceId)]
    /\ UNCHANGED <<derivedFrame, framesWire, framesReceived, outsideFrames>>

\* Message.ping()
Ping ==
    /\ causeFrame = NoFrame
    /\ \E genMessageId \in CauseMessageIds :
          causeFrame' = [origin |-> "ping",
                         frame |-> ping(genMessageId, CauseTraceId)]
    /\ UNCHANGED <<derivedFrame, framesWire, framesReceived, outsideFrames>>

\* toMxpStreamOpen(message)
BridgeStreamOpen ==
    /\ causeFrame = NoFrame
    /\ \E genMessageId \in CauseMessageIds : \E message \in {StreamMessage} :
          causeFrame' = [origin |-> "bridgeStreamOpen",
                         frame |-> toMxpStreamOpen(message, genMessageId, CauseTraceId)]
    /\ UNCHANGED <<derivedFrame, framesWire, framesReceived, outsideFrames>>

\* Message.response(payload, c.messageId) or Message.response(payload, c.messageId, { traceId })
Response ==
    /\ causeFrame # NoFrame
    /\ derivedFrame = NoFrame
    /\ causeFrame.frame.messageType \in {MessageTypeCall}
    /\ \E payload \in FramePayloads : \E options \in OptionsGiven : \E genTraceId \in DerivedTraceIds :
          derivedFrame' = [origin |-> "response",
                           options |-> options,
                           frame |-> response(payload, causeFrame.frame.messageId, options,
                                             IdMixedB, genTraceId)]
    /\ UNCHANGED <<causeFrame, framesWire, framesReceived, outsideFrames>>

\* Message.error(payload, c.messageId), with or without { traceId }
Error ==
    /\ causeFrame # NoFrame
    /\ derivedFrame = NoFrame
    /\ causeFrame.frame.messageType \in {MessageTypeCall}
    /\ \E payload \in FramePayloads : \E options \in OptionsGiven : \E genTraceId \in DerivedTraceIds :
          derivedFrame' = [origin |-> "error",
                           options |-> options,
                           frame |-> error(payload, causeFrame.frame.messageId, options,
                                          IdMixedB, genTraceId)]
    /\ UNCHANGED <<causeFrame, framesWire, framesReceived, outsideFrames>>

\* Message.streamChunk(payload, open.messageId), with or without { traceId }
StreamChunk ==
    /\ causeFrame # NoFrame
    /\ derivedFrame = NoFrame
    /\ causeFrame.frame.messageType \in {MessageTypeStreamOpen}
    /\ \E payload \in FramePayloads : \E options \in OptionsGiven : \E genTraceId \in DerivedTraceIds :
          derivedFrame' = [origin |-> "streamChunk",
                           options |-> options,
                           frame |-> streamChunk(payload, causeFrame.frame.messageId, options,
                                                IdMixedB, genTraceId)]
    /\ UNCHANGED <<causeFrame, framesWire, framesReceived, outsideFrames>>

\* Message.streamClose(open.messageId), with or without { traceId }
StreamClose ==
    /\ causeFrame # NoFrame
    /\ derivedFrame = NoFrame
    /\ causeFrame.frame.messageType \in {MessageTypeStreamOpen}
    /\ \E options \in OptionsGiven : \E genTraceId \in DerivedTraceIds :
          derivedFrame' = [origin |-> "streamClose",
                           options |-> options,
                           frame |-> streamClose(causeFrame.frame.messageId, options,
                                                IdMixedB, genTraceId)]
    /\ UNCHANGED <<causeFrame, framesWire, framesReceived, outsideFrames>>

\* Message.pong(ping)
Pong ==
    /\ causeFrame # NoFrame
    /\ derivedFrame = NoFrame
    /\ causeFrame.frame.messageType \in {MessageTypePing}
    /\ \E genTraceId \in DerivedTraceIds :
          derivedFrame' = [origin |-> "pong",
                           options |-> << >>,
                           frame |-> pong(causeFrame.frame, IdMixedB, genTraceId)]
    /\ UNCHANGED <<causeFrame, framesWire, framesReceived, outsideFrames>>

\* toMxpStreamChunk(content, open.messageId)
BridgeStreamChunk ==
    /\ causeFrame # NoFrame
    /\ derivedFrame = NoFrame
    /\ causeFrame.frame.messageType \in {MessageTypeStreamOpen}
    /\ \E content \in {<< >>, <<97>>} : \E genTraceId \in DerivedTraceIds :
          derivedFrame' = [origin |-> "bridgeStreamChunk",
                           options |-> << >>,
                           frame |-> toMxpStreamChunk(content, causeFrame.frame.messageId,
                                                     IdMixedB, genTraceId)]
    /\ UNCHANGED <<causeFrame, framesWire, framesReceived, outsideFrames>>

\* toMxpStreamClose(open.messageId)
BridgeStreamClose ==
    /\ causeFrame # NoFrame
    /\ derivedFrame = NoFrame
    /\ causeFrame.frame.messageType \in {MessageTypeStreamOpen}
    /\ \E genTraceId \in DerivedTraceIds :
          derivedFrame' = [origin |-> "bridgeStreamClose",
                           options |-> << >>,
                           frame |-> toMxpStreamClose(causeFrame.frame.messageId,
                                                     IdMixedB, genTraceId)]
    /\ UNCHANGED <<causeFrame, framesWire, framesReceived, outsideFrames>>

\* taskToMxp(task) in answer to a Call
TaskToMxp ==
    /\ causeFrame # NoFrame
    /\ derivedFrame = NoFrame
    /\ causeFrame.frame.messageType \in {MessageTypeCall}
    /\ \E genTraceId \in DerivedTraceIds :
          derivedFrame' = [origin |-> "taskToMxp",
                           options |-> << >>,
                           frame |-> taskToMxp(task, IdMixedB, genTraceId)]
    /\ UNCHANGED <<causeFrame, framesWire, framesReceived, outsideFrames>>

\* errorToMxp(code, message) or errorToMxp(code, message, c.messageId) in answer to a Call
ErrorToMxp ==
    /\ causeFrame # NoFrame
    /\ derivedFrame = NoFrame
    /\ causeFrame.frame.messageType \in {MessageTypeCall}
    /\ \E given \in {<< >>, [correlationId |-> causeFrame.frame.messageId]} :
       \E genTraceId \in DerivedTraceIds :
          derivedFrame' = [origin |-> "errorToMxp",
                           options |-> given,
                           frame |-> errorToMxp(0 - 32600, <<110, 111>>, given, IdMixedB, genTraceId)]
    /\ UNCHANGED <<causeFrame, framesWire, framesReceived, outsideFrames>>

\* the frames built so far
FramesBuilt == [cause |-> causeFrame, derived |-> derivedFrame]

\* the sender encodes a frame of a stream
FrameEncode ==
    /\ \E which \in {"cause", "derived"} :
          /\ FramesBuilt[which] # NoFrame
          /\ isStreaming(FramesBuilt[which].frame)
          /\ framesWire[which] = << >>
          /\ framesWire' = [framesWire EXCEPT ![which] = encode(FramesBuilt[which].frame).bytes]
    /\ UNCHANGED <<causeFrame, derivedFrame, framesReceived, outsideFrames>>

\* the receiver decodes the bytes
FrameDecode ==
    /\ \E which \in {"cause", "derived"} :
          /\ framesWire[which] # << >>
          /\ framesReceived[which] = NotCalled
          /\ framesReceived' = [framesReceived EXCEPT
                                   ![which] = decode(framesWire[which], IdMax, IdMax)]
    /\ UNCHANGED <<causeFrame, derivedFrame, framesWire, outsideFrames>>

InitFrames ==
    /\ CodecIdle
    /\ PeerNew
    /\ TransportNew
    /\ TaskNew
    /\ FramesIdle
    /\ BridgeIdle
    /\ JsonIdle
    /\ CardIdle
    /\ HubIdle
    /\ HeartbeatIdle
    /\ HandshakeIdle
    /\ RelayIdle

NextFrames ==
    \/ Call
    \/ StreamOpen
    \/ Ping
    \/ BridgeStreamOpen
    \/ Response
    \/ Error
    \/ StreamChunk
    \/ StreamClose
    \/ Pong
    \/ BridgeStreamChunk
    \/ BridgeStreamClose
    \/ TaskToMxp
    \/ ErrorToMxp
    \/ FrameEncode
    \/ FrameDecode

SpecFrames == InitFrames /\ [][NextFrames]_vars

(***************************************************************************)
(* Hub scenario: providers of one InMemorySignalingHub register handlers   *)
(* and send messages to one another; the timers of send fire in the order  *)
(* they were set.                                                          *)
(***************************************************************************)
\* most messages handed to send
MaxHubSent == 2

\* most handlers one provider registers, one after the other
MaxRegistrations == 2

\* the hub, as its methods take it, with the calls of handlers made so far
Hub == [peers |-> hubPeers, timers |-> hubTimers, called |-> hubObserved]

\* the handlers the scenario has seen registered, called or due to be called
HandlersKnown ==
    {hubPeers[id] : id \in HubIds}
        \cup {hubTimers[i].handler : i \in DOMAIN hubTimers}
        \cup {hubObserved[i].handler : i \in DOMAIN hubObserved}
        \cup {hubSent[i].registered : i \in DOMAIN hubSent}

\* what the provider of peer-1 sends: offers to itself, to peer-2 and to
\* peer-3, and an answer to peer-2
HubMessages ==
    {[type |-> "offer", from |-> "peer-1", to |-> to, payload |-> "null"] : to \in HubIds}
        \cup {[type |-> "answer", from |-> "peer-1", to |-> "peer-2", payload |-> "null"]}

\* the provider of localId is given a handler: a function of its own
HubOnMessage ==
    /\ \E localId \in HubIds : \E serial \in 1..MaxRegistrations :
       \E callback \in {[owner |-> localId, serial |-> serial]} :
          /\ callback \notin HandlersKnown
          /\ hubPeers' = hubOnMessage(Hub, localId, callback).peers
    /\ UNCHANGED <<hubTimers, hubSent, hubObserved, outsideHub>>

\* a provider's send(message)
HubSend ==
    /\ Len(hubSent) < MaxHubSent
    /\ \E message \in HubMessages :
          /\ hubTimers' = hubSend(Hub, message).timers
          /\ hubObserved' = hubSend(Hub, message).called
          /\ hubSent' = Append(hubSent, [message |-> message,
                                         registered |-> hubPeers[message.to]])
    /\ UNCHANGED <<hubPeers, outsideHub>>

\* the oldest timer fires: () => handler(message)
HubTimerFires ==
    /\ hubTimers # << >>
    /\ hubObserved' = Append(hubObserved, Head(hubTimers))
    /\ hubTimers' = Tail(hubTimers)
    /\ UNCHANGED <<hubPeers, hubSent, outsideHub>>

\* hub.clear()
HubClear ==
    /\ hubPeers # NewHub.peers
    /\ hubPeers' = hubClear(Hub).peers
    /\ UNCHANGED <<hubTimers, hubSent, hubObserved, outsideHub>>

InitHub ==
    /\ CodecIdle
    /\ PeerNew
    /\ TransportNew
    /\ TaskNew
    /\ FramesIdle
    /\ BridgeIdle
    /\ JsonIdle
    /\ CardIdle
    /\ HubIdle
    /\ HeartbeatIdle
    /\ HandshakeIdle
    /\ RelayIdle

NextHub ==
    \/ HubOnMessage
    \/ HubSend
    \/ HubTimerFires
    \/ HubClear

SpecHub == InitHub /\ [][NextHub]_vars

(***************************************************************************)
(* Relay scenario: the application connects a WebSocketSignaling provider  *)
(* and closes it; its sockets open, fail, are dropped by the server and    *)
(* finish closing; the timers of attemptReconnect fire.                    *)
(***************************************************************************)
\* most sockets the provider constructs
MaxSockets == 6

\* most calls of connect() the application makes
MaxRelayConnects == 1

\* the sockets the application's own calls of connect() have constructed
ConnectedByApplication ==
    {i \in DOMAIN webSocketSignaling.sockets : webSocketSignaling.sockets[i].by = "application"}

\* the application calls connect()
RelayConnect ==
    /\ Len(webSocketSignaling.sockets) < MaxSockets
    /\ Cardinality(ConnectedByApplication) < MaxRelayConnects
    /\ webSocketSignaling' = relayConnect(webSocketSignaling, "application")
    /\ UNCHANGED outsideRelay

\* socket i opens: ws.onopen
SocketOpens ==
    /\ \E i \in DOMAIN webSocketSignaling.sockets :
          /\ webSocketSignaling.sockets[i].readyState = "connecting"
          /\ webSocketSignaling' =
                relayOnOpen([webSocketSignaling EXCEPT !.sockets[i].readyState = "open"])
    /\ UNCHANGED outsideRelay

\* socket i is closed: it fails to connect (ws.onerror, which rejects the
\* promise of connect, then ws.onclose), the server drops it, or its close()
\* completes (ws.onclose)
SocketCloses ==
    /\ \E i \in DOMAIN webSocketSignaling.sockets :
          /\ webSocketSignaling.sockets[i].readyState # "closed"
          /\ webSocketSignaling' =
                attemptReconnect([webSocketSignaling EXCEPT !.sockets[i].readyState = "closed"])
    /\ UNCHANGED outsideRelay

\* a timer of attemptReconnect fires: () => this.connect().catch(() => {})
ReconnectTimerFires ==
    /\ Len(webSocketSignaling.sockets) < MaxSockets
    /\ \E t \in DOMAIN webSocketSignaling.timers :
          /\ webSocketSignaling.timers[t].pending
          /\ webSocketSignaling' =
                relayConnect([webSocketSignaling EXCEPT !.timers[t].pending = FALSE], "timer")
    /\ UNCHANGED outsideRelay

\* the application calls close()
RelayClose ==
    /\ webSocketSignaling' = relayClose(webSocketSignaling)
    /\ UNCHANGED outsideRelay

InitRelay ==
    /\ CodecIdle
    /\ PeerNew
    /\ TransportNew
    /\ TaskNew
    /\ FramesIdle
    /\ BridgeIdle
    /\ JsonIdle
    /\ CardIdle
    /\ HubIdle
    /\ HeartbeatIdle
    /\ HandshakeIdle
    /\ RelayIdle

NextRelay ==
    \/ RelayConnect
    \/ SocketOpens
    \/ SocketCloses
    \/ ReconnectTimerFires
    \/ RelayClose

SpecRelay == InitRelay /\ [][NextRelay]_vars

(***************************************************************************)
(* Bridge scenario: the application hands the bridge an A2A Message, or    *)
(* streams a text; the frame the bridge builds is converted by fromMxp,    *)
(* as built or after it has crossed the codec.                             *)
(***************************************************************************)
\* longest list of parts of a message of the scenario
MaxParts == 2

\* a quote, a backslash, a line feed, a two-byte and a three-byte character,
\* a surrogate pair and a lone surrogate
RichText == <<34, 92, 10, 233, 8364, 55357, 56832, 55357>>

\* { "k": [ {}, false, -12, "\"", null ] }
RichData ==
    JSObject(<<Member(<<107>>, JSArray(<<JSObject(<< >>), JSFalse, JSNumber(0 - 12),
                                        JSString(<<34>>), JSNull>>))>>)

PartsOffered ==
    {PartText(<< >>), PartText(RichText),
     PartFileInline(<<97, 47, 98>>, <<81, 81, 61, 61>>),
     PartFileUri(<<97, 47, 98>>, <<117, 58, 47, 47, 120>>),
     PartData(RichData), PartData(JSNull)}

\* the options of the scenario's messages: identifiers generated, without
\* task id and metadata; identifiers given, with task id and metadata
OptionsOffered ==
    {[contextId |-> JSUndefined, messageId |-> JSUndefined, taskId |-> JSUndefined,
      metadata |-> JSUndefined],
     [contextId |-> JSString(<< >>), messageId |-> JSString(<<109, 34>>),
      taskId |-> JSString(<<116, 49>>),
      metadata |-> JSObject(<<Member(<<107>>, JSNumber(7))>>)]}

BridgeMessages ==
    {NewA2AMessage(JSString(role), parts, options, UuidBuilt, UuidBuilt) :
        role \in {sUser, sAgent}, parts \in SeqsUpTo(PartsOffered, MaxParts),
        options \in OptionsOffered}

\* the lists of parts of the messages whose frames cross the codec
PartsSent ==
    {<< >>, <<PartText(RichText), PartData(RichData)>>,
     <<PartFileInline(<<97, 47, 98>>, <<81, 81, 61, 61>>), PartText(<< >>)>>}

\* the texts streamed: 'hi', the empty text, '7', 'null', and RichText
TextsStreamed == {<<104, 105>>, << >>, <<55>>, <<110, 117, 108, 108>>, RichText}

\* a frame the bridge has built, not yet sent or converted
Built(origin, frame) == [origin |-> origin, frame |-> frame, crossed |-> FALSE]

ToMxp ==
    /\ bridgeFrame = NoFrame
    /\ \E message \in BridgeMessages :
          /\ bridgeMessage' = message
          /\ bridgeFrame' = Built("toMxp", toMxp(message, IdMixedA, IdOne))
    /\ UNCHANGED <<bridgeWire, conversion, outsideBridge>>

ToMxpStreamChunk ==
    /\ bridgeFrame = NoFrame
    /\ \E content \in TextsStreamed :
          bridgeFrame' = Built("toMxpStreamChunk",
                               toMxpStreamChunk(content, IdMixedB, IdMixedA, IdOne))
    /\ UNCHANGED <<bridgeMessage, bridgeWire, conversion, outsideBridge>>

ToMxpStreamClose ==
    /\ bridgeFrame = NoFrame
    /\ bridgeFrame' = Built("toMxpStreamClose", toMxpStreamClose(IdMixedB, IdMixedA, IdOne))
    /\ UNCHANGED <<bridgeMessage, bridgeWire, conversion, outsideBridge>>

\* a frame of another implementation arrives: the envelope of a message
\* without the method
EnvelopeWithoutMethod ==
    /\ bridgeFrame = NoFrame
    /\ \E type \in {MessageTypeCall, MessageTypeResponse, MessageTypeStreamOpen,
                    MessageTypeStreamChunk, MessageTypeStreamClose} :
       \E message \in {m \in BridgeMessages : /\ m.parts = <<PartText(RichText)>>
                                              /\ m.role = JSString(sAgent)} :
          /\ bridgeMessage' = message
          /\ bridgeFrame' = Built("envelope",
                                  Envelope(type,
                                           <<Member(sMessage, messageToJSON(message))>>,
                                           IdMixedA, IdOne))
    /\ UNCHANGED <<bridgeWire, conversion, outsideBridge>>

\* the sender encodes the frame
BridgeEncode ==
    /\ bridgeFrame # NoFrame
    /\ bridgeFrame.origin = "toMxp" => bridgeMessage.parts \in PartsSent
    /\ ~bridgeFrame.crossed
    /\ bridgeWire = << >>
    /\ conversion = NotCalled
    /\ bridgeWire' = encode(bridgeFrame.frame).bytes
    /\ UNCHANGED <<bridgeMessage, bridgeFrame, conversion, outsideBridge>>

\* the receiver decodes the bytes
BridgeDecode ==
    /\ bridgeWire # << >>
    /\ ~bridgeFrame.crossed
    /\ \E r \in {decode(bridgeWire, IdMax, IdMax)} :
          /\ r.status = "ok"
          /\ bridgeFrame' = [bridgeFrame EXCEPT !.frame = r.value, !.crossed = TRUE]
    /\ UNCHANGED <<bridgeMessage, bridgeWire, conversion, outsideBridge>>

\* fromMxp is called on the frame as built, or as decoded
FromMxp ==
    /\ bridgeFrame # NoFrame
    /\ (bridgeWire # << >>) => bridgeFrame.crossed
    /\ conversion = NotCalled
    /\ conversion' = fromMxp(bridgeFrame.frame, UuidReceived, UuidReceived)
    /\ UNCHANGED <<bridgeMessage, bridgeFrame, bridgeWire, outsideBridge>>

InitBridge ==
    /\ CodecIdle
    /\ PeerNew
    /\ TransportNew
    /\ TaskNew
    /\ FramesIdle
    /\ BridgeIdle
    /\ JsonIdle
    /\ CardIdle
    /\ HubIdle
    /\ HeartbeatIdle
    /\ HandshakeIdle
    /\ RelayIdle

NextBridge ==
    \/ ToMxp
    \/ ToMxpStreamChunk
    \/ ToMxpStreamClose
    \/ EnvelopeWithoutMethod
    \/ BridgeEncode
    \/ BridgeDecode
    \/ FromMxp

SpecBridge == InitBridge /\ [][NextBridge]_vars

(***************************************************************************)
(* Message scenario: the application builds an A2A Message, links it to a  *)
(* context or a task, and the message is taken through toJSON and          *)
(* fromJSON.                                                               *)
(***************************************************************************)
\* the options the messages are built with: each identifier given or left
\* to the constructor; no task id, a task id, the empty task id; no
\* metadata, metadata without members, metadata with one
MessageOptions ==
    {[contextId |-> ids, messageId |-> ids, taskId |-> taskId, metadata |-> metadata] :
        ids \in {JSUndefined, JSString(<<109, 34>>)},
        taskId \in {JSUndefined, JSString(<<116, 49>>), JSString(<< >>)},
        metadata \in {JSUndefined, JSObject(<< >>),
                      JSObject(<<Member(<<107>>, JSNumber(7))>>)}}

\* Message.create(role, parts, options)
CreateMessage ==
    /\ a2aMessage = JSUndefined
    /\ \E role \in {sUser, sAgent} : \E parts \in SeqsUpTo(PartsOffered, MaxParts) :
       \E options \in MessageOptions :
          a2aMessage' = NewA2AMessage(JSString(role), parts, options, UuidBuilt, UuidBuilt)
    /\ UNCHANGED <<messageJson, messageParsed, outsideJson>>

\* message.withContext(contextId)
WithContext ==
    /\ a2aMessage # JSUndefined
    /\ messageJson = NotCalled
    /\ a2aMessage.parts = << >>
    /\ \E contextId \in {<<99>>, << >>} :
          a2aMessage' = withContext(a2aMessage, JSString(contextId), UuidBuilt, UuidBuilt)
    /\ UNCHANGED <<messageJson, messageParsed, outsideJson>>

\* message.withTask(taskId)
WithTask ==
    /\ a2aMessage # JSUndefined
    /\ messageJson = NotCalled
    /\ a2aMessage.parts = << >>
    /\ \E taskId \in {<<116, 50>>, << >>} :
          a2aMessage' = withTask(a2aMessage, JSString(taskId), UuidBuilt, UuidBuilt)
    /\ UNCHANGED <<messageJson, messageParsed, outsideJson>>

\* message.toJSON()
MessageToJSON ==
    /\ a2aMessage # JSUndefined
    /\ messageJson = NotCalled
    /\ messageJson' = Ok(messageToJSON(a2aMessage))
    /\ UNCHANGED <<a2aMessage, messageParsed, outsideJson>>

\* Message.fromJSON(json)
MessageFromJSON ==
    /\ messageJson # NotCalled
    /\ messageParsed = NotCalled
    /\ messageParsed' = messageFromJSON(messageJson.value, UuidReceived, UuidReceived)
    /\ UNCHANGED <<a2aMessage, messageJson, outsideJson>>

InitMessages ==
    /\ CodecIdle
    /\ PeerNew
    /\ TransportNew
    /\ TaskNew
    /\ FramesIdle
    /\ BridgeIdle
    /\ JsonIdle
    /\ CardIdle
    /\ HubIdle
    /\ HeartbeatIdle
    /\ HandshakeIdle
    /\ RelayIdle

NextMessages ==
    \/ CreateMessage
    \/ WithContext
    \/ WithTask
    \/ MessageToJSON
    \/ MessageFromJSON

SpecMessages == InitMessages /\ [][NextMessages]_vars

(***************************************************************************)
(* Card scenario: the application builds an AgentCard with the builder     *)
(* operations, serialises it, and the text is parsed back.                 *)
(***************************************************************************)
MaxSkills == 1
MaxSecurity == 1

\* options omitted, or { provider: { organization: 'o' }, version: '1' }
CardOptions ==
    {<< >>,
     [provider |-> JSObject(<<Member(sOrganization, JSString(<<111>>))>>),
      version |-> JSString(<<49>>)]}

\* new AgentSkill('s', 'S', 'd').withTags(['b']).withExamples(['x']) and
\* new AgentSkill('t', 'T', 'e', { tags: ['a'], inputModes: ['i'], outputModes: ['o'] })
SkillsOffered ==
    {withExamples(withTags(NewAgentSkill(JSString(<<115>>), JSString(<<83>>), JSString(<<100>>),
                                         << >>),
                           JSArray(<<JSString(<<98>>)>>)),
                  JSArray(<<JSString(<<120>>)>>)),
     NewAgentSkill(JSString(<<116>>), JSString(<<84>>), JSString(<<101>>),
                   [tags |-> JSArray(<<JSString(<<97>>)>>),
                    inputModes |-> JSArray(<<JSString(<<105>>)>>),
                    outputModes |-> JSArray(<<JSString(<<111>>)>>)])}

\* new AgentCard('T', 'd', 'u', options)
NewCard ==
    /\ card = NotCalled
    /\ \E options \in CardOptions :
          card' = Ok(NewAgentCard(JSString(<<84>>), JSString(<<100>>), JSString(<<117>>),
                                  options))
    /\ UNCHANGED <<cardJson, cardParsed, outsideCard>>

\* AgentCard.withMxp('T', 'd', 'u', 'm', options)
CardWithMxp ==
    /\ card = NotCalled
    /\ \E options \in CardOptions :
          card' = Ok(cardWithMxp(JSString(<<84>>), JSString(<<100>>), JSString(<<117>>),
                                 JSString(<<109>>), options))
    /\ UNCHANGED <<cardJson, cardParsed, outsideCard>>

\* card.withProvider('p')
WithProvider ==
    /\ card # NotCalled
    /\ cardJson = NotCalled
    /\ card' = Ok(withProvider(card.value, JSString(<<112>>), JSUndefined))
    /\ UNCHANGED <<cardJson, cardParsed, outsideCard>>

\* card.withStreaming()
WithStreaming ==
    /\ card # NotCalled
    /\ cardJson = NotCalled
    /\ card' = Ok(withStreaming(card.value))
    /\ UNCHANGED <<cardJson, cardParsed, outsideCard>>

\* card.withPushNotifications()
WithPushNotifications ==
    /\ card # NotCalled
    /\ cardJson = NotCalled
    /\ card' = Ok(withPushNotifications(card.value))
    /\ UNCHANGED <<cardJson, cardParsed, outsideCard>>

\* card.withSkill(skill)
WithSkill ==
    /\ card # NotCalled
    /\ cardJson = NotCalled
    /\ Len(card.value.skills) < MaxSkills
    /\ \E skill \in SkillsOffered : card' = Ok(withSkill(card.value, skill))
    /\ UNCHANGED <<cardJson, cardParsed, outsideCard>>

\* card.withSecurity('k', { type: 'http', scheme: 'bearer' }) with the
\* default scopes
WithSecurity ==
    /\ card # NotCalled
    /\ cardJson = NotCalled
    /\ Len(card.value.security.items) < MaxSecurity
    /\ card' = Ok(withSecurity(card.value, JSString(<<107>>),
                               JSObject(<<Member(sType, JSString(<<104, 116, 116, 112>>)),
                                          Member(sScheme,
                                                 JSString(<<98, 101, 97, 114, 101, 114>>))>>),
                               JSArray(<< >>)))
    /\ UNCHANGED <<cardJson, cardParsed, outsideCard>>

\* card.toJSON()
CardToJSON ==
    /\ card # NotCalled
    /\ cardJson = NotCalled
    /\ cardJson' = Ok(cardToJSON(card.value))
    /\ UNCHANGED <<card, cardParsed, outsideCard>>

\* AgentCard.fromJSON(json)
CardFromJSON ==
    /\ cardJson # NotCalled
    /\ cardParsed = NotCalled
    /\ cardParsed' = cardFromJSON(cardJson.value)
    /\ UNCHANGED <<card, cardJson, outsideCard>>

InitCard ==
    /\ CodecIdle
    /\ PeerNew
    /\ TransportNew
    /\ TaskNew
    /\ FramesIdle
    /\ BridgeIdle
    /\ JsonIdle
    /\ CardIdle
    /\ HubIdle
    /\ HeartbeatIdle
    /\ HandshakeIdle
    /\ RelayIdle

NextCard ==
    \/ NewCard
    \/ CardWithMxp
    \/ WithProvider
    \/ WithStreaming
    \/ WithPushNotifications
    \/ WithSkill
    \/ WithSecurity
    \/ CardToJSON
    \/ CardFromJSON

SpecCard == InitCard /\ [][NextCard]_vars

(***************************************************************************)
(* Properties of the codec                                                 *)
(***************************************************************************)
\* encode has returned and nothing has touched or read the bytes since
FreshlyEncoded ==
    /\ enc # NotCalled
    /\ damage = Undamaged
    /\ decoded = NotCalled

\* the payload length a buffer of at least 64 bytes declares in its header
Declared(bytes) == GetUint32LE(bytes, OffPayloadLength)

Zeros(n) == [i \in 1..n |-> 0]

\* the eight little-endian bytes of a 64-bit value, written out digit by digit
LittleEndian8(value) == [i \in 1..8 |-> BigDigit(value, i - 1)]

\* bit i (0-based) of a bigint
BigBit(value, i) == Bit(BigDigit(value, i \div 8), i % 8)

\* value, below 2^64, rotated left by n bits within 64 bits: bit i of the
\* result is bit i - n of value, counted modulo 64
RotateLeft64(value, n) ==
    The({ BigNorm([k \in 1..8 |->
                BigBit(v, (8 * k + 56 - n) % 64)
              + BigBit(v, (8 * k + 57 - n) % 64) * 2
              + BigBit(v, (8 * k + 58 - n) % 64) * 4
              + BigBit(v, (8 * k + 59 - n) % 64) * 8
              + BigBit(v, (8 * k + 60 - n) % 64) * 16
              + BigBit(v, (8 * k + 61 - n) % 64) * 32
              + BigBit(v, (8 * k + 62 - n) % 64) * 64
              + BigBit(v, (8 * k + 63 - n) % 64) * 128])
        : v \in {value} })

RECURSIVE Recurrence(_, _)
\* the recurrence, every step modulo 2^64, over the first n bytes of data:
\* h = 0; then for each byte b, h = h XOR (b * P1), h rotated left by 31, h
\* times P2
Recurrence(data, n) ==
    IF n = 0 THEN << >>
    ELSE The({ BigMaskBytes(BigMul(RotateLeft64(h, 31), prime2), 8)
             : h \in {BigXor(Recurrence(data, n - 1),
                             BigMaskBytes(BigMul(BigNorm(<<data[n]>>), prime1), 8))} })

\* the payload bytes of a buffer
PayloadOf(bytes) == SubSeq(bytes, HEADER_SIZE + 1, Len(bytes))

\* C36: the checksum of a byte sequence is the value of the recurrence
\* evaluated modulo 2^64, and lies in 0..2^64-1: for the checksum encode
\* writes into the header, and for the one decode computes over the payload
\* bytes it is handed, whatever has been written into them.
C36_ChecksumRecurrence ==
    /\ FreshlyEncoded =>
          SubSeq(wire, OffChecksum + 1, OffChecksum + 8)
              = LittleEndian8(Recurrence(msg.payload, Len(msg.payload)))
    /\ Len(wire) >= HEADER_SIZE =>
          The({ /\ hash = Recurrence(PayloadOf(wire), Len(PayloadOf(wire)))
                /\ Len(hash) <= 8
                /\ \A i \in DOMAIN hash : hash[i] \in Byte
              : hash \in {xxhash64(PayloadOf(wire))} })

\* the payload 255, 255 has been encoded: after the first byte the left
\* shift by 31 bits of the accumulator has more than 64 bits, and the
\* checksum written is 0xc232c456d9309c72: the value of the recurrence
C36_ChecksumRecurrenceReached ==
    /\ FreshlyEncoded
    /\ msg.payload = <<255, 255>>
    /\ Len(BigShl(BigMaskBytes(BigMul(<<255>>, prime1), 8), 31)) > 8
    /\ SubSeq(wire, OffChecksum + 1, OffChecksum + 8) = <<114, 156, 48, 217, 86, 196, 50, 194>>

\* C1: decoding the bytes encode produced gives back the frame it was given,
\* equal in kind, flags, priority, message id, trace id, correlation id and
\* payload; the message id is the one on the wire, not a generated one.
C1_RoundTrip ==
    (damage = Undamaged /\ decoded # NotCalled) => decoded = Ok(msg)

C1_RoundTripReached ==
    /\ damage = Undamaged
    /\ decoded = Ok(msg)
    /\ msg.messageId = IdMax
    /\ msg.messageId \notin GeneratedIds
    /\ Len(msg.payload) = MaxPayloadLen

\* C2: once a single payload byte of the encoded frame has been replaced by a
\* different value, decode fails with the checksum-mismatch error.
C2_TamperDetected ==
    (damage.kind = "payload" /\ decoded # NotCalled) => decoded = Err("Checksum mismatch")

C2_TamperDetectedReached ==
    /\ damage.kind = "payload"
    /\ damage.pos = MaxPayloadLen
    /\ wire[HEADER_SIZE + damage.pos] # enc.value.bytes[HEADER_SIZE + damage.pos]
    /\ decoded = Err("Checksum mismatch")

\* C3: a buffer whose declared payload length plus 64 exceeds the bytes
\* supplied, or whose declared length exceeds 16 MiB, is never decoded into a
\* frame (the error it is rejected with being the payload-length overflow).
C3_OverflowRejected ==
    (/\ Len(wire) >= HEADER_SIZE
     /\ decoded # NotCalled
     /\ \/ Declared(wire) + HEADER_SIZE > Len(wire)
        \/ Declared(wire) > MAX_PAYLOAD_SIZE)
    => decoded.status = "error"

\* C4: a buffer whose version byte is not 1 is never decoded into a frame.
C4_VersionRejected ==
    (/\ Len(wire) >= HEADER_SIZE
     /\ GetUint8(wire, OffVersion) # 1
     /\ decoded # NotCalled)
    => decoded.status = "error"

\* C5: for a buffer of fewer than 64 bytes decode fails with the too-short
\* error and decodeHeader fails; neither returns a frame or a header.
C5_TooShort ==
    Len(wire) < HEADER_SIZE =>
        /\ decoded # NotCalled => decoded = Err("Message too short")
        /\ hdr # NotCalled => hdr = Err("Header too short")

C5_TooShortReached ==
    /\ damage.kind = "truncate"
    /\ Len(wire) = HEADER_SIZE - 1
    /\ decoded = Err("Message too short")
    /\ hdr = Err("Header too short")

\* C6: the header encodeHeader writes has version at 0, kind at 1, flags at 2,
\* priority at 3, message id at 8..15, trace id at 16..23, correlation id at
\* 24..31, payload length at 32..35, the payload checksum at 56..63, all
\* little-endian, and zero in the reserved bytes 4..7, 36..47 and 48..55.
C6_WireLayout ==
    FreshlyEncoded =>
        LET h == enc.value.header
        IN  /\ Len(h) = 64
            /\ h[1] = msg.version
            /\ h[2] = msg.messageType
            /\ h[3] = msg.flags
            /\ h[4] = msg.priority
            /\ SubSeq(h, 5, 8) = Zeros(4)
            /\ SubSeq(h, 9, 16) = LittleEndian8(msg.messageId)
            /\ SubSeq(h, 17, 24) = LittleEndian8(msg.traceId)
            /\ SubSeq(h, 25, 32) = LittleEndian8(msg.correlationId)
            /\ SubSeq(h, 33, 36) = <<Len(msg.payload), 0, 0, 0>>
            /\ SubSeq(h, 37, 48) = Zeros(12)
            /\ SubSeq(h, 49, 56) = Zeros(8)
            /\ SubSeq(h, 57, 64) = LittleEndian8(xxhash64(msg.payload))

\* C7: encode returns exactly 64 + payload length bytes, the first 64 being
\* encodeHeader of the frame and the rest the payload, unchanged and in order.
C7_EncodeShape ==
    FreshlyEncoded =>
        LET bytes == enc.value.bytes
        IN  /\ Len(bytes) = 64 + Len(msg.payload)
            /\ Len(bytes) = encodedSize(msg)
            /\ SubSeq(bytes, 1, 64) = encodeHeader(msg)
            /\ SubSeq(bytes, 65, Len(bytes)) = msg.payload

C7_EncodeShapeReached ==
    /\ FreshlyEncoded
    /\ Len(msg.payload) = MaxPayloadLen
    /\ msg.payload[1] = 255
    /\ Len(enc.value.bytes) = 64 + MaxPayloadLen

(***************************************************************************)
(* Properties of the peer                                                  *)
(***************************************************************************)
\* the candidates that arrived while no remote description was set, in the
\* order of their arrival
EarlyCandidates ==
    LET IsEarly(r) == r.early
    IN  The({ [i \in 1..Len(early) |-> early[i].candidate] \o << >>
            : early \in {SelectSeq(received, IsEarly)} })

\* the candidates of EarlyCandidates handed to pc.addIceCandidate so far, in
\* the order of the calls
AppliedEarly ==
    LET WasEarly(candidate) ==
            \E i \in DOMAIN received :
                received[i].candidate = candidate /\ received[i].early
    IN  SelectSeq(applied, WasEarly)

Elements(seq) == {seq[i] : i \in DOMAIN seq}

\* the Offer's or Answer's handler is past processPendingCandidates
Drained == handler.at \in {"createAnswer", "done"}

SendAfterCloseFails ==
    (lastCall.op \in {"send", "sendPing"} /\ lastCall.after >= 1)
        => (lastCall.result = Err("Data channel not open") /\ lastCall.wrote = 0)

\* createOffer, handleOffer and handleAnswer were not started on a closed
\* connection: since the first close() only events of the channel and of
\* the connection, and send calls, have reached the peer
OnlyEventsSinceClose == offerer # "failed" /\ handler.at # "failed"

\* C9: after close(), every send and sendPing fails with the channel-closed
\* error and writes nothing, and every further close() changes no field of
\* the peer and emits no state change, whatever events arrived in between.
C9_ClosedIsFinal ==
    /\ SendAfterCloseFails
    /\ (lastCall.op = "close" /\ lastCall.after >= 1 /\ OnlyEventsSinceClose)
          => (~lastCall.changed /\ ~lastCall.emitted)

\* the application calls createOffer() in this step
CreateOfferCalled == offerer = "idle" /\ offerer' # "idle"

\* C37: Closed is absorbing: once close() has set the state to Closed, no
\* later event of the channel or the connection and no Offer, Answer or
\* candidate fed to the peer moves the state to another value (and so none
\* emits a state change).
C37_ClosedAbsorbing ==
    [][(state = "closed" /\ ~CreateOfferCalled) => state' = "closed"]_vars

\* a chunk whose frame decode returns and whose kind is not Ping or Pong
Deliverable(c) ==
    /\ DecodedChunks[c].status = "ok"
    /\ DecodedChunks[c].value.messageType \notin {MessageTypePing, MessageTypePong}

\* C10: of the chunks received on the data channel, exactly those that
\* decode to a frame of a kind other than Ping and Pong are passed to the
\* peer's message handler, once each and in order; the transport's message
\* event and its received-messages counter see the same frames, so no Ping
\* and no Pong is delivered or counted.
C10_PingPongNotDelivered ==
    /\ delivered = SelectSeq(inbound, Deliverable)
    /\ messageEvents = delivered
    /\ messagesReceived = Len(delivered)
    /\ \A i \in DOMAIN delivered :
          ChunkSources[delivered[i]].frame.messageType
              \notin {MessageTypePing, MessageTypePong}

\* a Ping, a Pong and a Call have arrived: the Ping was answered with a
\* Pong, the Call alone was delivered
C10_PingPongNotDeliveredReached ==
    /\ inbound = <<3, 4, 1>>
    /\ delivered = <<1>>
    /\ messagesReceived = 1
    /\ Len(written) = 1
    /\ GetUint8(written[1], OffMessageType) = MessageTypePong

\* the chunk the step has taken from the data channel
ChunkHandled == DecodedChunks[inbound'[Len(inbound')]]

\* C28: a chunk that fails to decode is reported with one error event and
\* dropped: no message is delivered or counted, nothing is sent, and the
\* peer's state, its connection, its data channel and its heartbeat timer
\* stay as they are; the frames that decode, before and after it, are
\* delivered all the same.
C28_DecodeFailureDropped ==
    /\ [][(inbound' # inbound /\ ChunkHandled.status = "error")
             => /\ errors' = errors + 1
                /\ UNCHANGED <<delivered, messageEvents, messagesReceived, written>>
                /\ UNCHANGED <<state, lastStateChange, connectionState, dataChannel,
                               readyState, heartbeatTimer>>]_vars
    /\ [](delivered = SelectSeq(inbound, Deliverable))

\* a chunk with a damaged payload and a truncated chunk were reported, the
\* Call after them was delivered, and the peer is connected with its
\* channel open and its heartbeat running
C28_DecodeFailureDroppedReached ==
    /\ inbound = <<5, 6, 1>>
    /\ errors = 2
    /\ delivered = <<1>>
    /\ written = << >>
    /\ state = "connected"
    /\ ChannelOpen
    /\ heartbeatTimer

\* the frame in the buffer the step has passed to dataChannel.send last
LastWritten == decode(written'[Len(written')], IdMax, IdMax)

\* C29: a Ping that arrives while the data channel is open is answered
\* within the handling of its chunk by one Pong, whose correlation id is the
\* Ping's message id and whose trace id is the Ping's trace id; nothing else
\* is sent, delivered or reported.  A frame built by ping() has correlation
\* id 0.
C29_PingAnswered ==
    /\ [][(/\ inbound' # inbound
            /\ ChannelOpen
            /\ ChunkHandled.status = "ok"
            /\ ChunkHandled.value.messageType = MessageTypePing)
             => /\ Len(written') = Len(written) + 1
                /\ SubSeq(written', 1, Len(written)) = written
                /\ LastWritten.status = "ok"
                /\ LastWritten.value.messageType = MessageTypePong
                /\ LastWritten.value.correlationId = ChunkHandled.value.messageId
                /\ LastWritten.value.traceId = ChunkHandled.value.traceId
                /\ UNCHANGED <<errors, delivered, messageEvents, messagesReceived>>]_vars
    /\ [](\A g \in {IdOne, IdMax, IdMixedA, IdMixedB} : ping(g, IdOne).correlationId = << >>)

\* two Pings have arrived on the open channel and two Pongs were written,
\* each with the Ping's message id as correlation id and the Ping's trace id
C29_PingAnsweredReached ==
    /\ inbound = <<3, 3>>
    /\ Len(written) = 2
    /\ errors = 0
    /\ \A i \in 1..2 :
          /\ GetUint8(written[i], OffMessageType) = MessageTypePong
          /\ decode(written[i], IdMax, IdMax).value.correlationId = IdMixedB
          /\ decode(written[i], IdMax, IdMax).value.traceId = IdOne

\* C30: the peer sends heartbeat Pings only while its state is Connected;
\* at most one heartbeat interval of the peer is set at any time; after
\* close() none is set and nothing is sent any more, with one channel or
\* several opened on the peer before.
C30_HeartbeatOwned ==
    /\ [][written' # written => state = "connected"]_vars
    /\ [](Cardinality(intervals) <= 1)
    /\ [](closeCalls > 0 => intervals = {})
    /\ [][closeCalls > 0 => written' = written]_vars

\* the step emits the signaling message of the given kind
Emits(kind) == signaled' = Append(signaled, kind)

\* C31: the Offer is emitted only after the data channel was created and
\* the offer set as local description; the Answer only after the remote
\* description was set, every candidate queued before that was handed to
\* the connection, and the answer set as local description.
C31_HandshakeOrder ==
    /\ [][Emits("offer")
             => /\ dataChannel = "set"
                /\ "offer" \in Elements(localDescriptions)]_vars
    /\ [][Emits("answer")
             => /\ remoteDescription
                /\ AppliedEarly = EarlyCandidates
                /\ pendingCandidates = << >>
                /\ "answer" \in Elements(localDescriptions)]_vars

\* two candidates were queued before the Offer arrived, and the Answer has
\* been emitted
C31_HandshakeOrderReached ==
    /\ signaled = <<"answer">>
    /\ EarlyCandidates = <<1, 2>>
    /\ applied = <<1, 2>>
    /\ localDescriptions = <<"answer">>

Waiting(c) ==
    /\ connectCalls[c].at = "waiting"
    /\ connectCalls[c].result = "pending"

\* C11: a call of connect that has created a peer fails with 'Connection
\* failed' when that peer reaches Failed, also when it does so while the
\* offer is being created or sent: no call is left waiting for its timeout
\* with a peer that has failed.
C11_FailedPeerFailsConnect ==
    \A c \in DOMAIN connectCalls :
        Waiting(c) => peerObjects[connectCalls[c].peer].state # "failed"

\* C33: when the signaling provider's send fails while connect(peerId)
\* emits the Offer, connect fails with the provider's error and the peer it
\* created is torn down: it is closed and the map does not hold it.
C33_ProviderFailureTearsDown ==
    \A c \in DOMAIN connectCalls :
        connectCalls[c].result = ProviderError
            => /\ peerObjects[connectCalls[c].peer].state = "closed"
               /\ peers[connectCalls[c].peerId] # connectCalls[c].peer

\* the peer map holds a peer for id and that peer is Connected
ConnectedEntry(id) ==
    IF peers[id] = 0 THEN FALSE ELSE isConnected(peerObjects[peers[id]])

\* peer i is no longer the peer the map holds for its id
Replaced(i) == peers[peerObjects[i].id] # i

\* C12: connect(peerId) on an id whose peer is Connected returns at once and
\* changes nothing: no peer is created or closed, no call is left pending,
\* nothing is handed to signaling.  A peer in any other state is closed
\* before the map entry is overwritten: every peer that is no longer in the
\* map has been closed, so the peers of one id that have not been closed
\* are at most one, the one in the map.
C12_ConnectReplaces ==
    /\ \A id \in PeerIds : ConnectedEntry(id) => connect(World, id) = World
    /\ \A i \in DOMAIN peerObjects : Replaced(i) => peerObjects[i].closeCalls > 0

\* a first peer of alice was closed and replaced by a second, and connect
\* has just returned at once because the second is Connected
C12_ConnectReplacesReached ==
    /\ lastOp = [op |-> "connect", peerId |-> "alice", returned |-> TRUE]
    /\ Len(peerObjects) = 2
    /\ peers["alice"] = 2
    /\ peerObjects[1].closeCalls = 1
    /\ peerObjects[1].state = "closed"
    /\ peerObjects[2].closeCalls = 0

\* C13: send(peerId, message) throws 'Peer not found' when the map has no
\* entry for peerId and 'Peer not connected' when the entry is not Connected,
\* and otherwise does what the peer's send does; whenever it throws, also
\* when the throw comes from the peer's send, nothing has been written to a
\* channel and the counters are what they were.
C13_SendFailsClean ==
    \A id \in PeerIds : \A sent \in {transportSend(World, id, SentBytes)} :
        /\ peers[id] = 0 => sent.result = Err("Peer not found")
        /\ peers[id] # 0 /\ ~ConnectedEntry(id) => sent.result = Err("Peer not connected")
        /\ ConnectedEntry(id) => sent.result = peerSend(peerObjects[peers[id]])
        /\ sent.result.status = "error" => sent.world = World
        /\ sent.result.status = "ok" =>
               /\ sent.world.peerObjects[peers[id]].written
                     = peerObjects[peers[id]].written + 1
               /\ sent.world.stats.messagesSent = stats.messagesSent + 1

\* a frame has been sent before, and send has just thrown out of the send
\* of a peer that is Connected while its channel is not open
C13_SendFailsCleanReached ==
    /\ lastOp = [op |-> "send", result |-> Err("Data channel not open")]
    /\ stats.messagesSent > 0

\* the peers of the map that are Connected
ConnectedIds == {id \in PeerIds : ConnectedEntry(id)}

\* C39: after every fully handled event the peers-connected counter is the
\* number of peers of the map whose state is Connected, for peers created by
\* connect as for peers created by an incoming Offer.
C39_PeerCountExact == stats.peersConnected = Cardinality(ConnectedIds)

\* the Connected peers whose channel takes a frame
OpenIds == {id \in ConnectedIds : peerSend(peerObjects[peers[id]]).status = "ok"}

\* C38: a peer whose state is Connected has an open data channel: the send
\* of every peer of the map that passes the Connected check takes a frame
\* and does not fail with the channel-closed error.
C38_ConnectedHasOpenChannel ==
    \A id \in PeerIds :
        ConnectedEntry(id) =>
            /\ peerObjects[peers[id]].dataChannel
            /\ peerObjects[peers[id]].readyState = "open"
            /\ peerSend(peerObjects[peers[id]]) # Err("Data channel not open")

\* C14: broadcast(message) tries the send of every Connected peer and of no
\* other; a send that throws ends neither the loop nor the call, every
\* Connected peer whose send succeeds has the frame written to its channel,
\* and messagesSent and bytesSent grow by one frame for each of those peers
\* and by nothing else.
C14_BroadcastCounts ==
    \A sent \in {broadcast(World, SentBytes)} :
        /\ sent.attempted = ConnectedIds
        /\ sent.succeeded = OpenIds
        /\ sent.world.stats =
              [stats EXCEPT !.messagesSent = @ + Cardinality(OpenIds),
                            !.bytesSent = @ + Cardinality(OpenIds) * Len(SentBytes)]
        /\ sent.world.peerObjects =
              [i \in DOMAIN peerObjects |->
                  IF \E id \in OpenIds : peers[id] = i
                  THEN [peerObjects[i] EXCEPT !.written = @ + 1]
                  ELSE peerObjects[i]]
        /\ sent.world.peers = peers
        /\ sent.world.signalsOut = signalsOut

\* broadcast has just tried both peers: the send of the first threw, the
\* second took the frame
C14_BroadcastCountsReached ==
    /\ lastOp = [op |-> "broadcast", attempted |-> {"alice", "bob"}, succeeded |-> {"bob"}]
    /\ peerObjects[peers["bob"]].written > 0
    /\ peerObjects[peers["alice"]].written = 0

\* C15: a signaling message whose `to` is not the local id is dropped,
\* whatever its kind, its sender and its payload: the peer map, every peer
\* (its state and its queued candidates included), the statistics and the
\* signaling output are what they were.
C15_ForeignDropped ==
    \A signal \in SignalingMessages :
        signal.to # LocalId => handleSignalingMessage(World, signal) = World

\* a message for another dispatcher has just been handled while a peer of
\* this one holds a queued candidate
C15_ForeignDroppedReached ==
    /\ lastOp = [op |-> "signaling", addressed |-> FALSE, carries |-> TRUE]
    /\ \E id \in PeerIds : IF peers[id] = 0 THEN FALSE
                            ELSE peerObjects[peers[id]].pendingCandidates > 0

\* w is the world after an Offer, an Answer or a Hangup, or after an
\* IceCandidate of an unknown sender, has been dispatched as the claim says
DispatchedByKind(signal, w) ==
    \A from \in {signal.from} : \A n \in {Len(peerObjects)} : \A k \in {peers[signal.from]} :
        CASE signal.type = "offer" /\ k = 0 ->
                 /\ w.peers = [peers EXCEPT ![from] = n + 1]
                 /\ w.peerObjects =
                       Append(peerObjects, [newPeer(from) EXCEPT !.state = "connecting",
                                                                  !.awaiting = "offer"])
          [] signal.type = "offer" /\ k # 0 ->
                 /\ w.peers = peers
                 /\ w.peerObjects = [peerObjects EXCEPT ![k].state = "connecting",
                                                        ![k].awaiting = "offer"]
          [] signal.type \in {"answer", "ice-candidate", "hangup"} /\ k = 0 ->
                 w = World
          [] signal.type = "answer" /\ k # 0 ->
                 w = [World EXCEPT !.peerObjects[k].awaiting = "answer"]
          [] signal.type = "hangup" /\ k # 0 ->
                 /\ w.peers = [peers EXCEPT ![from] = 0]
                 /\ w.peerObjects[k].closeCalls = peerObjects[k].closeCalls + 1
                 /\ w.peerObjects[k].state = "closed"
                 /\ \A i \in DOMAIN peerObjects : i # k => w.peerObjects[i] = peerObjects[i]
          [] OTHER -> FALSE

\* w is the world after peer k has been fed a candidate
CandidateFed(k, w) ==
    w = IF peerObjects[k].remoteDescription
        THEN [World EXCEPT !.peerObjects[k].applied = @ + 1]
        ELSE [World EXCEPT !.peerObjects[k].pendingCandidates = @ + 1]

\* the sender of signal has a peer in the map
KnownSender(signal) == peers[signal.from] # 0

\* C16 as stated: of the messages addressed to the local id, an Offer of an
\* unknown sender creates one peer and feeds it, an Offer of a known sender
\* feeds the existing peer, an Answer or IceCandidate of an unknown sender
\* does nothing, an Answer or IceCandidate of a known sender is fed to its
\* peer, and a Hangup closes the sender's peer and removes its entry.
C16_DispatchByKind ==
    \A signal \in SignalingMessages : \A w \in {handleSignalingMessage(World, signal)} :
        signal.to = LocalId =>
            IF signal.type = "ice-candidate" /\ KnownSender(signal)
            THEN CandidateFed(peers[signal.from], w)
            ELSE DispatchedByKind(signal, w)

\* C16, amended: as above, but an IceCandidate of a known sender is fed to
\* its peer only if the message carries a payload; one whose payload is
\* null is ignored.
C16_DispatchByKindWithPayload ==
    \A signal \in SignalingMessages : \A w \in {handleSignalingMessage(World, signal)} :
        signal.to = LocalId =>
            IF signal.type = "ice-candidate" /\ KnownSender(signal)
            THEN IF signal.payload # "null"
                 THEN CandidateFed(peers[signal.from], w)
                 ELSE w = World
            ELSE DispatchedByKind(signal, w)

\* a message without payload, addressed to the local id, has just been
\* handled and both senders have a peer, one of them with a candidate
\* queued: the message was no Hangup, which would have removed its
\* sender's peer, but an IceCandidate
C16_DispatchByKindReached ==
    /\ lastOp = [op |-> "signaling", addressed |-> TRUE, carries |-> FALSE]
    /\ \A id \in PeerIds : peers[id] # 0
    /\ \E i \in DOMAIN peerObjects : peerObjects[i].pendingCandidates > 0

(***************************************************************************)
(* Properties of the frames the helpers build                              *)
(***************************************************************************)
\* C21: every frame a factory helper (response, error, streamChunk,
\* streamClose, pong) or a stream helper of the bridge builds in reply to a
\* frame, or as part of the stream a frame opened, has the trace id of that
\* frame.
C21_TracePreserved ==
    derivedFrame # NoFrame => derivedFrame.frame.traceId = causeFrame.frame.traceId

\* the kinds of frame that answer a frame or belong to a stream
CorrelatedKinds ==
    {MessageTypeResponse, MessageTypeError, MessageTypePong, MessageTypeStreamChunk,
     MessageTypeStreamClose}

\* C22: every Response, Error, Pong, StreamChunk or StreamClose frame the
\* factory helpers and the bridge (taskToMxp, errorToMxp, the stream
\* helpers) build has a correlation id other than 0.
C22_CorrelationSet ==
    (derivedFrame # NoFrame /\ derivedFrame.frame.messageType \in CorrelatedKinds)
        => derivedFrame.frame.correlationId # << >>

\* the frame decode returned is the frame built, in the two identifiers
\* that name the stream
SameStream(which) ==
    /\ framesReceived[which].status = "ok"
    /\ framesReceived[which].value.messageId = FramesBuilt[which].frame.messageId
    /\ framesReceived[which].value.correlationId = FramesBuilt[which].frame.correlationId

\* C23: a stream is named by the message id of its opener: the opener that
\* streamOpen or toMxpStreamOpen builds has correlation id 0, every chunk
\* and close built with the opener's message id has that id as its
\* correlation id, and both identifiers of each frame are the same after
\* encode and decode.
C23_StreamIdentified ==
    /\ (causeFrame # NoFrame /\ causeFrame.frame.messageType = MessageTypeStreamOpen)
          => causeFrame.frame.correlationId = << >>
    /\ (derivedFrame # NoFrame /\ causeFrame.frame.messageType = MessageTypeStreamOpen)
          => /\ derivedFrame.frame.messageType
                   \in {MessageTypeStreamChunk, MessageTypeStreamClose}
             /\ derivedFrame.frame.correlationId = causeFrame.frame.messageId
    /\ \A which \in {"cause", "derived"} :
          framesReceived[which] # NotCalled => SameStream(which)

\* the opener of the bridge and a chunk of the bridge have both crossed the
\* codec, the chunk naming the opener's message id
C23_StreamIdentifiedReached ==
    /\ causeFrame # NoFrame
    /\ derivedFrame # NoFrame
    /\ causeFrame.origin = "bridgeStreamOpen"
    /\ derivedFrame.origin = "bridgeStreamChunk"
    /\ framesReceived["cause"] # NotCalled
    /\ framesReceived["derived"] # NotCalled
    /\ framesReceived["derived"].value.correlationId = IdMixedA
    /\ framesReceived["cause"].value.messageId = IdMixedA
    /\ framesReceived["cause"].value.correlationId = << >>

(***************************************************************************)
(* Properties of the JSON form of a Task                                   *)
(***************************************************************************)
\* C26: Task.fromJSON(t.toJSON()) is t in id, context id, state and message
\* of the status, artifacts and history, for every task reached by setStatus,
\* addArtifact and addMessage.
C26_TaskJson ==
    taskParsed # NotCalled
        => /\ taskParsed.status = "ok"
           /\ taskParsed.value.id = task.id
           /\ taskParsed.value.contextId = task.contextId
           /\ taskParsed.value.status.state = task.status.state
           /\ taskParsed.value.status.message = task.status.message
           /\ taskParsed.value.artifacts = task.artifacts
           /\ taskParsed.value.history = task.history

(***************************************************************************)
(* Properties of the JSON form of an AgentCard                             *)
(***************************************************************************)
\* the provider, by its organization and its url
ProviderOf(c) ==
    <<c.provider.t, GetProperty(c.provider, sOrganization), GetProperty(c.provider, sUrl)>>

\* the card AgentCard.fromJSON returned is the card built in name,
\* description, url, provider, version, capabilities and additional
\* interfaces, and in id, name, description, tags and examples of each skill
RestoredButModesAndSecurity ==
    /\ cardParsed.status = "ok"
    /\ cardParsed.value.name = card.value.name
    /\ cardParsed.value.description = card.value.description
    /\ cardParsed.value.url = card.value.url
    /\ ProviderOf(cardParsed.value) = ProviderOf(card.value)
    /\ cardParsed.value.version = card.value.version
    /\ cardParsed.value.capabilities = card.value.capabilities
    /\ cardParsed.value.additionalInterfaces = card.value.additionalInterfaces
    /\ Len(cardParsed.value.skills) = Len(card.value.skills)
    /\ \A i \in DOMAIN card.value.skills :
          /\ cardParsed.value.skills[i].id = card.value.skills[i].id
          /\ cardParsed.value.skills[i].name = card.value.skills[i].name
          /\ cardParsed.value.skills[i].description = card.value.skills[i].description
          /\ cardParsed.value.skills[i].tags = card.value.skills[i].tags
          /\ cardParsed.value.skills[i].examples = card.value.skills[i].examples

\* C27: AgentCard.fromJSON(c.toJSON()) is c in name, description, url,
\* provider, version, capabilities and MXP endpoint, skills with their tags,
\* examples and input and output modes, additional interfaces and security
\* schemes, for every card the builder operations build.
C27_CardJson ==
    cardParsed # NotCalled
        => /\ RestoredButModesAndSecurity
           /\ cardParsed.value.skills = card.value.skills
           /\ cardParsed.value.security = card.value.security

(***************************************************************************)
(* Properties of the signaling hub                                         *)
(***************************************************************************)
\* how many elements of seq satisfy Test
Count(seq, Test(_)) == Cardinality({i \in DOMAIN seq : Test(seq[i])})

\* how many times callback has been called with message, and how many
\* timers are set to do so
Observations(callback, message) ==
    LET Is(o) == o.handler = callback /\ o.message = message
    IN  Count(hubObserved, Is)

Due(callback, message) ==
    LET Is(o) == o.handler = callback /\ o.message = message
    IN  Count(hubTimers, Is)

\* how many times message was handed to send while callback was the
\* handler registered for its `to`
SentTo(callback, message) ==
    LET Is(x) == x.registered = callback /\ x.message = message
    IN  Count(hubSent, Is)

\* C24: a message sent with `to` = t is delivered to the handler that is
\* registered for t when it is sent, once for every time it is sent, and to
\* no other handler; sent while no handler is registered for t, it is
\* delivered to nobody.
C24_HubIsolation ==
    /\ \A i \in DOMAIN hubObserved :
          /\ hubObserved[i].handler # Unregistered
          /\ hubObserved[i].handler.owner = hubObserved[i].message.to
    /\ \A callback \in HandlersKnown \ {Unregistered} : \A message \in HubMessages :
          Observations(callback, message) + Due(callback, message)
              = SentTo(callback, message)

(***************************************************************************)
(* Properties of the WebSocket signaling provider                          *)
(***************************************************************************)
\* the index of the last successful open in the provider's log, 0 if none
LastOpen ==
    LET opens == {i \in DOMAIN webSocketSignaling.log : webSocketSignaling.log[i].did = "open"}
    IN  IF opens = {} THEN 0 ELSE CHOOSE i \in opens : \A j \in opens : j <= i

\* the reconnect attempts scheduled since the last successful open
AttemptsSinceOpen ==
    SubSeq(webSocketSignaling.log, LastOpen + 1, Len(webSocketSignaling.log))

\* C35: the reconnect attempts scheduled without a successful open in
\* between are at most 5, the k-th of them k x 1000 ms after the close that
\* set it off; a successful open sets the count of attempts back to 0.
C35_ReconnectBackoff ==
    /\ Len(AttemptsSinceOpen) <= 5
    /\ \A k \in DOMAIN AttemptsSinceOpen : AttemptsSinceOpen[k].delay = k * 1000
    /\ webSocketSignaling.reconnectAttempts = Len(AttemptsSinceOpen)

\* the socket of connect() has opened and was dropped, five reconnects have
\* been scheduled 1 s to 5 s after the closes before them and have all
\* failed, and after the failure of the fifth nothing is scheduled
C35_ReconnectBackoffReached ==
    /\ ~webSocketSignaling.closed
    /\ Len(webSocketSignaling.sockets) = 6
    /\ \A i \in DOMAIN webSocketSignaling.sockets :
          webSocketSignaling.sockets[i].readyState = "closed"
    /\ \A t \in DOMAIN webSocketSignaling.timers : ~webSocketSignaling.timers[t].pending
    /\ LastOpen = 1
    /\ [k \in DOMAIN AttemptsSinceOpen |-> AttemptsSinceOpen[k].delay]
          = <<1000, 2000, 3000, 4000, 5000>>

\* C40: after close() the provider opens no new socket connection.
C40_NoSocketAfterClose ==
    \A i \in DOMAIN webSocketSignaling.sockets : ~webSocketSignaling.sockets[i].afterClose

\* the messages of seq, a sequence of calls or timers, that go to target
MessagesTo(seq, target) ==
    LET Goes(o) == o.message.to = target
        kept == SelectSeq(seq, Goes)
    IN  [i \in DOMAIN kept |-> kept[i].message]

\* the messages handed to send for target while it had a handler
AcceptedFor(target) ==
    LET Goes(x) == x.message.to = target /\ x.registered # Unregistered
        kept == SelectSeq(hubSent, Goes)
    IN  [i \in DOMAIN kept |-> kept[i].message]

\* C34: send calls no handler before it returns, it only sets a timer; and
\* the messages sent to one target are delivered to it in the order they
\* were sent: what the target has been handed so far, followed by what is
\* still due to it, is what was sent to it, in that order.
C34_HubScheduledInOrder ==
    /\ [][hubSent' # hubSent => hubObserved' = hubObserved]_vars
    /\ [](\A target \in HubIds :
             MessagesTo(hubObserved, target) \o MessagesTo(hubTimers, target)
                 = AcceptedFor(target))

\* peer-2 has been sent an offer and then an answer, and has been handed the
\* offer, then the answer
C34_HubScheduledInOrderReached ==
    /\ Len(hubSent) = MaxHubSent
    /\ MessagesTo(hubObserved, "peer-2")
          = <<[type |-> "offer", from |-> "peer-1", to |-> "peer-2", payload |-> "null"],
              [type |-> "answer", from |-> "peer-1", to |-> "peer-2", payload |-> "null"]>>
    /\ hubTimers = << >>

\* peer-1 has sent one message to peer-3, which has no handler, and one to
\* peer-2, which has: the handler of peer-2 has seen the second and no other
C24_HubIsolationReached ==
    /\ Len(hubSent) = 2
    /\ hubSent[1].message.to = "peer-3"
    /\ hubSent[1].message.from = "peer-1"
    /\ hubSent[1].registered = Unregistered
    /\ hubSent[2].message.to = "peer-2"
    /\ hubPeers["peer-2"] # Unregistered
    /\ hubTimers = << >>
    /\ hubObserved = <<[handler |-> hubPeers["peer-2"], message |-> hubSent[2].message]>>

(***************************************************************************)
(* Properties of the JSON form of a Message                                *)
(***************************************************************************)
\* the JSON form has a member named key
HasMember(json, key) == \E i \in DOMAIN json.items : json.items[i].key = key

\* the message Message.fromJSON returned is the message built, in role,
\* parts, context id, message id and metadata
RestoredButTaskId ==
    /\ messageParsed.status = "ok"
    /\ messageParsed.value.role = a2aMessage.role
    /\ messageParsed.value.parts = a2aMessage.parts
    /\ messageParsed.value.contextId = a2aMessage.contextId
    /\ messageParsed.value.messageId = a2aMessage.messageId
    /\ messageParsed.value.metadata = a2aMessage.metadata

DeclaredEdges ==
    {<<"submitted", "working">>, <<"working", "input-required">>,
     <<"input-required", "working">>, <<"working", "completed">>,
     <<"working", "failed">>, <<"working", "canceled">>}

\* C17: once the status of a Task is Completed, Failed or Canceled, no later
\* setStatus takes it to a different state: from the first terminal state
\* on, every state the task takes is that state.
C17_TerminalIsFinal ==
    \A i \in DOMAIN taskStates : \A j \in DOMAIN taskStates :
        i < j /\ isTerminal(TaskStatus(taskStates[i], JSUndefined, TimeBuilt))
            => taskStates[j] = taskStates[i]

\* C18: a new Task starts in Submitted, and each setStatus either takes the
\* task along a declared edge or leaves its state as it is.
C18_DeclaredEdgesOnly ==
    /\ taskStates[1] = "submitted"
    /\ \A i \in DOMAIN taskStates :
          i > 1 => \/ taskStates[i] = taskStates[i - 1]
                   \/ <<taskStates[i - 1], taskStates[i]>> \in DeclaredEdges

(***************************************************************************)
(* Properties of the bridge                                                *)
(***************************************************************************)
\* fromMxp has been called on a frame that toMxp built
ConvertedBack == conversion # NotCalled /\ bridgeFrame.origin = "toMxp"

\* C19: for every A2A Message m, fromMxp of the frame toMxp(m) returns the
\* method "message/send" and a message equal to m in role, parts (their
\* kind, content and order), context id and message id, whether the frame
\* is converted as built or after encode and decode.
C19_MessageRoundTrip ==
    ConvertedBack =>
        /\ conversion.status = "ok"
        /\ conversion.value.method = JSString(sMessageSend)
        /\ conversion.value.message.role = bridgeMessage.role
        /\ conversion.value.message.parts = bridgeMessage.parts
        /\ conversion.value.message.contextId = bridgeMessage.contextId
        /\ conversion.value.message.messageId = bridgeMessage.messageId

\* a message with a text part of escaped and non-ASCII characters and a
\* data part has crossed the codec and has been converted back
C19_MessageRoundTripReached ==
    /\ ConvertedBack
    /\ bridgeFrame.crossed
    /\ bridgeMessage.parts = <<PartText(RichText), PartData(RichData)>>
    /\ bridgeMessage.metadata # JSUndefined
    /\ conversion.status = "ok"

\* C20: for every frame whose payload carries no method, fromMxp returns a
\* result whose method is inferred from the kind of the frame: a stream
\* chunk of raw text, a stream close without payload, and an envelope
\* without method.
C20_MethodInferred ==
    conversion # NotCalled
        /\ bridgeFrame.origin \in {"toMxpStreamChunk", "toMxpStreamClose", "envelope"}
    => /\ conversion.status = "ok"
       /\ conversion.value.method = JSString(inferMethod(bridgeFrame.frame.messageType))

=============================================================================
